---- MODULE Spec2Model ----
(***************************************************************************)
(* Model of the ZIP cache of photo-st-denis: SimpleCacheService (cache     *)
(* key derivation, lookup, generation into the cache directory, size and   *)
(* age eviction, the scheduled pre-generation) and the download handler    *)
(* of TransferController, the start of the application, and the archive    *)
(* assembly of FileProcessingService over PhotosConfigService.             *)
(*                                                                         *)
(* Strings are sequences of character codes (97 = "a", 124 = "|").         *)
(* A file is a record of its name in the cache directory (NoName once it   *)
(* is unlinked), the streams that hold it open, and its content: a file    *)
(* handle outlives a rename or an unlink of the name, as on POSIX.         *)
(*                                                                         *)
(* Specifications:                                                         *)
(*   Spec        overlapping preGenerateZips invocations and flushes       *)
(*   SpecDl      download requests, one invocation at a time, flushes      *)
(*   FairSpecDl  one download request under fairness of its own steps      *)
(*   FairSpecRetry  one invocation and one request, both under fairness    *)
(*   SpecEvict   size and age eviction with the clock                      *)
(*   SpecMaint   the daily maintenance sweep                               *)
(*   SpecToken   one download request while the clock passes a token's     *)
(*               expiry                                                    *)
(*   SpecBoot    the start of the application, then serving                *)
(*   SpecAsm     one assembly: processDirectoriesAsync, its archiver and   *)
(*               the stream handed to the requester                        *)
(*   SpecKey     generateCacheKey on every list of identifiers             *)
(*   SpecLookup  a download request whose memory cache may fail            *)
(*   SpecStats   download requests whose counter update is two steps       *)
(*   SpecTemp    statistics, lookups and flushes beside a generation       *)
(*   SpecSame    two recent orders of one set of directories               *)
(*   SpecConv    pre-generation on a cache directory left by an earlier    *)
(*               life of the process                                       *)
(*   SpecAssociate  order creation beside pre-generation                   *)
(*   SpecPath    getFullPhotoPath on every directory identifier            *)
(***************************************************************************)
EXTENDS Integers, Sequences, FiniteSets, TLC

VARIABLES
    orders,     \* the order collection, newest first: <<[dirs, token]>>
    files,      \* the files of the cache directory and the unlinked files still open
    memCache,   \* cacheManager entries of ZIP paths: cache key -> file name
    stats,      \* cacheManager entries cache:stats:hits / cache:stats:misses
    run,        \* the preGenerateZips invocations in flight
    dl,         \* the download requests in flight
    now,        \* Date.now()
    lastOp,     \* what the call made by the last step read and returned
    keyIn,      \* argument of a generateCacheKey call
    keyOut,     \* its result, once derived
    maint,      \* the performDailyMaintenance sweep: position and calls made
    boot,       \* the start of the application: position, cache root, photos base
    asm         \* one processDirectoriesAsync call with its archiver and stream

vars == <<orders, files, memCache, stats, run, dl, now, lastOp, keyIn, keyOut, maint,
          boot, asm>>

(***************************************************************************)
(* Bounds of the model.                                                    *)
(***************************************************************************)
MaxOrders == 2          \* orders in the database
NumRuns == 2            \* preGenerateZips invocations that may overlap
NumDownloads == 2       \* download requests
MaxTime == 1            \* clock values 0..MaxTime
NumChunks == 2          \* writes an assembly needs for one archive
MaxDirs == 3            \* length of a directoryPaths argument of generateCacheKey
MaxDays == 1            \* days that pass between maintenance sweeps
MaxIdLen == 5           \* characters of a directory identifier given to getFullPhotoPath

Runs == 1..NumRuns
Downloads == 1..NumDownloads
Chunks == 1..NumChunks

(***************************************************************************)
(* Directory identifiers: "a", "ab", "b", "c".                             *)
(***************************************************************************)
DirIds == {<<97>>, <<97, 98>>, <<98>>, <<99>>}

RECURSIVE SeqsUpTo(_, _)
SeqsUpTo(S, n) ==
    IF n = 0 THEN {<<>>}
    ELSE LET shorter == SeqsUpTo(S, n - 1)
         IN  shorter \cup {Append(s, x) : s \in shorter, x \in S}

DirLists == SeqsUpTo(DirIds, MaxDirs)

(***************************************************************************)
(* generateCacheKey: [...directoryPaths].sort(), join('|'), sha256, the    *)
(* first 16 hex characters.                                                *)
(***************************************************************************)
\* The default comparator of Array.prototype.sort: code units, left to right,
\* a proper prefix first.
RECURSIVE LexLess(_, _)
LexLess(s, t) ==
    IF t = <<>> THEN FALSE
    ELSE IF s = <<>> THEN TRUE
    ELSE IF Head(s) < Head(t) THEN TRUE
    ELSE IF Head(s) > Head(t) THEN FALSE
    ELSE LexLess(Tail(s), Tail(t))

RECURSIVE SortInsert(_, _)
SortInsert(x, s) ==
    IF s = <<>> THEN <<x>>
    ELSE IF LexLess(x, Head(s)) THEN <<x>> \o s
    ELSE <<Head(s)>> \o SortInsert(x, Tail(s))

\* [...directoryPaths].sort()
RECURSIVE SortPaths(_)
SortPaths(paths) ==
    IF paths = <<>> THEN <<>>
    ELSE SortInsert(Head(paths), SortPaths(Tail(paths)))

\* The first n elements of paths with '|' between them.
RECURSIVE JoinFirst(_, _)
JoinFirst(paths, n) ==
    IF n = 0 THEN <<>>
    ELSE IF n = 1 THEN paths[1]
    ELSE JoinFirst(paths, n - 1) \o <<124>> \o paths[n]

\* sorted.join('|')
Join(paths) == JoinFirst(paths, Len(paths))

\* Width of the truncated digest: 16 hex characters in the code, 4 here.
HashWidth == 65536

\* The digest of the first n code units of s.
RECURSIVE Update(_, _)
Update(s, n) ==
    IF n = 0 THEN 7
    ELSE (Update(s, n - 1) * 31 + s[n]) % HashWidth

\* createHash('sha256').update(s).digest('hex').substring(0, 16): a fixed-width
\* digest of the whole string, here a polynomial digest of the code units.
Sha256Hex16(s) == Update(s, Len(s))

\* A key derivation that forgets to sort.
generateCacheKeyUnsorted(directoryPaths) ==
    Sha256Hex16(Join(directoryPaths))

generateCacheKey(directoryPaths) ==
    LET sorted == SortPaths(directoryPaths)
        combined == Join(sorted)
    IN  Sha256Hex16(combined)

\* generateCacheKey, tabulated over the lists of the model.
cacheKeyOf == [directoryPaths \in DirLists |-> generateCacheKey(directoryPaths)]

\* A ZIP path named after the list as it is given.
getZipPathAsListed(directoryPaths) ==
    [key |-> generateCacheKeyUnsorted(directoryPaths), ext |-> ".zip"]

\* path.join(cacheDirectory, `${cacheKey}.zip`): a name in the cache directory.
getZipPath(directoryPaths) ==
    [key |-> cacheKeyOf[directoryPaths], ext |-> ".zip"]

\* One temporary file for every generation.
TempPathShared(outputPath) == [key |-> 0, ext |-> ".zip.tmp"]

\* `${outputPath}.tmp`
TempPath(outputPath) == [key |-> outputPath.key, ext |-> ".zip.tmp"]

\* A filter that also takes the temporary files.
EndsWithZipOrTmp(name) == name.ext \in {".zip", ".zip.tmp"}

\* file.endsWith('.zip')
EndsWithZip(name) == name.ext = ".zip"

(***************************************************************************)
(* The environment: the orders that associate may create, and the number   *)
(* of bytes an assembly writes for a directory (store, no compression).    *)
(***************************************************************************)
OrderDirs == {<<<<97>>, <<98>>>>, <<<<98>>, <<97>>>>, <<<<99>>>>}

DirBytes(dir) ==
    CASE dir = <<97>> -> 16
      [] dir = <<98>> -> 16
      [] dir = <<99>> -> 16
      [] OTHER -> 25

\* The orders found in the database when the service starts (oldest first).
OrderSeqs == {os \in SeqsUpTo(OrderDirs, MaxOrders) : Len(os) = MaxOrders}

\* The orders of the eviction scenario, of distinct keys: three archives of
\* 16 bytes, or archives of 16, 25 and 32 bytes.
EvictOrderSeqs ==
    {<<<<<<97>>>>, <<<<98>>>>, <<<<99>>>>>>,
     <<<<<<97>>>>, <<<<97, 98>>>>, <<<<97>>, <<98>>>>>>}

RECURSIVE ArchiveBytes(_)
ArchiveBytes(directoryPaths) ==
    IF directoryPaths = <<>> THEN 0
    ELSE DirBytes(Head(directoryPaths)) + ArchiveBytes(Tail(directoryPaths))

(***************************************************************************)
(* Configuration of SimpleCacheService, sizes in hundredths of a megabyte. *)
(***************************************************************************)
\* Bytes in a hundredth of a megabyte (10485.76 in the code).
BytesPerCentiMB == 4

\* maxCacheSizeMB (5000 MB in the code), in hundredths of a megabyte.
maxCacheSizeMB == 10

maxRecentOrders == 20

\* maxCacheAgeHours; the clock counts hours.
maxCacheAgeHours == 24

\* bytesToMB: Math.round((bytes / 1024 / 1024) * 100) / 100, in hundredths.
bytesToMB(bytes) == (2 * bytes + BytesPerCentiMB) \div (2 * BytesPerCentiMB)

(***************************************************************************)
(* The cache directory.                                                    *)
(*   name  the directory entry, or NoName after unlink                    *)
(*   w     the preGenerateZips invocations whose write stream holds it     *)
(*   rd    the downloads whose read stream holds it                        *)
(*   st    the invocations whose generateZipFile has just stored it        *)
(*   data  per chunk, whether the archive's bytes are there (a truncation  *)
(*         or a write past the end leaves a hole)                          *)
(***************************************************************************)
NoName == [key |-> -1, ext |-> ""]

Range(f) == {f[x] : x \in DOMAIN f}

Named(name) == {o \in files : o.name = name}

\* fs.promises.access(filePath) succeeds.
fileExists(filePath) == Named(filePath) # {}

FileAt(name) == CHOOSE o \in Named(name) : TRUE

\* The file a write stream holds.
Held(r) == CHOOSE o \in files : r \in o.w

\* getZipFiles: readdir filtered by endsWith('.zip').
getZipFiles == {o.name : o \in {x \in files : x.name # NoName /\ EndsWithZip(x.name)}}

\* getCacheFileInfos: name, size and mtime of every ZIP file.
getCacheFileInfos ==
    {[name |-> name, size |-> FileAt(name).size, mtime |-> FileAt(name).mtime] :
        name \in getZipFiles}

RECURSIVE SumSizes(_)
SumSizes(infos) ==
    IF infos = {} THEN 0
    ELSE LET f == CHOOSE f \in infos : TRUE
         IN  f.size + SumSizes(infos \ {f})

\* The orders of a readdir listing.
Perms(S) ==
    {seq \in [1..Cardinality(S) -> S] : \A i, j \in 1..Cardinality(S) :
                                            i # j => seq[i] # seq[j]}

\* A file lives while a name or a handle refers to it.
Prune(fs) == {o \in fs : o.name # NoName \/ o.w # {} \/ o.rd # {}}

\* fs.promises.unlink of each of the names.
Unlink(fs, names) ==
    Prune({IF o.name \in names THEN [o EXCEPT !.name = NoName, !.st = {}] ELSE o :
           o \in fs})

Remove(f, names) == [n \in (DOMAIN f) \ names |-> f[n]]

EmptyData == [c \in Chunks |-> FALSE]

NoOp == [op |-> "none"]

(***************************************************************************)
(* Size enforcement and flushes, as functions of the listing they read.    *)
(* `fail` is the set of names whose unlink throws.                         *)
(***************************************************************************)
\* fileInfos.sort((a, b) => a.mtime - b.mtime): a stable sort, oldest first.
RECURSIVE InsertByMtime(_, _)
InsertByMtime(f, s) ==
    IF s = <<>> THEN <<f>>
    ELSE IF f.mtime < Head(s).mtime THEN <<f>> \o s
    ELSE <<Head(s)>> \o InsertByMtime(f, Tail(s))

\* A sort that puts the newest first.
RECURSIVE InsertNewestFirst(_, _)
InsertNewestFirst(f, s) ==
    IF s = <<>> THEN <<f>>
    ELSE IF f.mtime > Head(s).mtime THEN <<f>> \o s
    ELSE <<Head(s)>> \o InsertNewestFirst(f, Tail(s))

RECURSIVE SortNewestFirst(_)
SortNewestFirst(fileInfos) ==
    IF fileInfos = <<>> THEN <<>>
    ELSE InsertNewestFirst(fileInfos[Len(fileInfos)],
                           SortNewestFirst(SubSeq(fileInfos, 1, Len(fileInfos) - 1)))

RECURSIVE SortByMtime(_)
SortByMtime(fileInfos) ==
    IF fileInfos = <<>> THEN <<>>
    ELSE InsertByMtime(fileInfos[Len(fileInfos)],
                       SortByMtime(SubSeq(fileInfos, 1, Len(fileInfos) - 1)))

\* A size check that unlinks the oldest file and stops there.
EvictOne(fileInfos, remainingSize, fail) ==
    IF fileInfos = <<>>
    THEN [deleted |-> {}, failed |-> {}, remainingSize |-> remainingSize]
    ELSE IF Head(fileInfos).name \in fail
    THEN [deleted |-> {}, failed |-> {Head(fileInfos).name},
          remainingSize |-> remainingSize]
    ELSE [deleted |-> {Head(fileInfos).name}, failed |-> {},
          remainingSize |-> remainingSize - Head(fileInfos).size]

\* A loop without the break: every file of the listing is unlinked.
RECURSIVE EvictAll(_, _, _)
EvictAll(fileInfos, remainingSize, fail) ==
    IF fileInfos = <<>>
    THEN [deleted |-> {}, failed |-> {}, remainingSize |-> remainingSize]
    ELSE LET fileInfo == Head(fileInfos)
         IN  IF fileInfo.name \in fail
             THEN LET rest == EvictAll(Tail(fileInfos), remainingSize, fail)
                  IN  [rest EXCEPT !.failed = @ \cup {fileInfo.name}]
             ELSE LET rest == EvictAll(Tail(fileInfos),
                                       remainingSize - fileInfo.size, fail)
                  IN  [rest EXCEPT !.deleted = @ \cup {fileInfo.name}]

\* The loop of enforceMaxCacheSize over the sorted listing: unlink, subtract,
\* stop once the remaining size is within the limit; a failed unlink is skipped.
RECURSIVE EvictLoop(_, _, _)
EvictLoop(fileInfos, remainingSize, fail) ==
    IF fileInfos = <<>>
    THEN [deleted |-> {}, failed |-> {}, remainingSize |-> remainingSize]
    ELSE LET fileInfo == Head(fileInfos)
         IN  IF fileInfo.name \in fail
             THEN LET rest == EvictLoop(Tail(fileInfos), remainingSize, fail)
                  IN  [rest EXCEPT !.failed = @ \cup {fileInfo.name}]
             ELSE LET left == remainingSize - fileInfo.size
                  IN  IF bytesToMB(left) <= maxCacheSizeMB
                      THEN [deleted |-> {fileInfo.name}, failed |-> {},
                            remainingSize |-> left]
                      ELSE LET rest == EvictLoop(Tail(fileInfos), left, fail)
                           IN  [rest EXCEPT !.deleted = @ \cup {fileInfo.name}]

\* enforceMaxCacheSize on a listing (in readdir order).
enforceMaxCacheSize(fileInfos, fail) ==
    LET totalSize == SumSizes(Range(fileInfos))
    IN  IF bytesToMB(totalSize) <= maxCacheSizeMB
        THEN [deleted |-> {}, failed |-> {}, remainingSize |-> totalSize]
        ELSE EvictLoop(SortByMtime(fileInfos), totalSize, fail)

\* A flush that also takes the files whose mtime equals the cutoff.
FlushSelectInclusive(fileInfos, cutoffTime) ==
    {f \in fileInfos : f.mtime <= cutoffTime}

\* flushCacheOlderThan: the files with stats.mtime.getTime() < cutoffTime.
FlushSelect(fileInfos, cutoffTime) ==
    {f \in fileInfos : f.mtime < cutoffTime}

\* flushCacheOlderThan on a listing: size is added before the unlink, the count after.
flushCacheOlderThan(fileInfos, ageInMs, fail) ==
    LET cutoffTime == now - ageInMs
        old == FlushSelect(fileInfos, cutoffTime)
        deleted == {f.name : f \in old} \ fail
    IN  [deleted |-> deleted, failed |-> {f.name : f \in old} \cap fail,
         deletedFiles |-> Cardinality(deleted),
         totalSizeMB |-> bytesToMB(SumSizes(old))]

\* flushAllCache on a listing.
flushAllCache(fileInfos, fail) ==
    LET deleted == {f.name : f \in fileInfos} \ fail
    IN  [deleted |-> deleted, failed |-> {f.name : f \in fileInfos} \cap fail,
         deletedFiles |-> Cardinality(deleted),
         totalSizeMB |-> bytesToMB(SumSizes(fileInfos))]

(***************************************************************************)
(* Initial state: the service has started on an empty cache directory; the *)
(* order collection holds the orders created so far.                       *)
(***************************************************************************)
EmptyMap == [x \in {} |-> 0]

\* No key derived yet: keyOut holds the derived key as a one-element sequence.
NoKey == <<>>

IdleRun == [pc |-> "idle", recent |-> <<>>, idx |-> 0, off |-> 0]

IdleDownload == [pc |-> "idle", dirs |-> <<>>, path |-> NoName]

\* No sweep is running; calls are the calls the last sweep made, in order.
IdleMaint == [pc |-> "idle", calls |-> <<>>, deletedFiles |-> 0]

\* A request that is over: answered with an error, or its stream ended.
Ended(outcome) == [IdleDownload EXCEPT !.pc = outcome]

\* associate: tokenExpiry = new Date(Date.now() + 72 * 3600000), in hours.
TokenHours == 72

\* The orders in the database, newest first. The oldest was created TokenHours
\* before the service started, the others as it started.
Placed(os) ==
    [i \in 1..Len(os) |->
        [dirs |-> os[i], token |-> Len(os) + 1 - i,
         tokenExpiry |-> IF i = Len(os) THEN 0 ELSE TokenHours]]

\* The application has started: mkdir of the cache directory succeeded and the
\* photos base path is a readable directory.
Started == [pc |-> "serving", cacheDirectory |-> TRUE, photosBase |-> "directory"]

\* No processDirectoriesAsync call has been made.
IdleAsm ==
    [pc |-> "idle", dirs |-> <<>>, step |-> <<>>, queue |-> <<>>, written |-> 0,
     finalizeCalls |-> 0, stream |-> "open", err |-> FALSE,
     client |-> "reading", writtenAtClose |-> 0]

InitCache ==
    /\ asm = IdleAsm
    /\ files = {}
    /\ memCache = EmptyMap
    /\ stats = [hits |-> 0, misses |-> 0]
    /\ run = [r \in Runs |-> IdleRun]
    /\ dl = [d \in Downloads |-> IdleDownload]
    /\ now = 0
    /\ lastOp = NoOp
    /\ keyIn = <<>>
    /\ keyOut = NoKey
    /\ maint = IdleMaint

Init ==
    /\ \E os \in OrderSeqs : orders = Placed(os)
    /\ InitCache
    /\ boot = Started

(***************************************************************************)
(* SimpleCacheService.preGenerateZips: one invocation r of the cron job.   *)
(***************************************************************************)
\* The loop over recentOrders, at order idx; the invocation ends after the last.
LoopAt(recent, idx) ==
    IF idx > Len(recent) THEN IdleRun
    ELSE [pc |-> "check", recent |-> recent, idx |-> idx, off |-> 0]

\* orderService.findRecentOrders(limit): newest first, at most limit.
findRecentOrders(limit) ==
    [i \in 1..(IF Len(orders) < limit THEN Len(orders) ELSE limit) |-> orders[i].dirs]

\* The directoryPaths of the order an invocation is at.
Current(r) == run[r].recent[run[r].idx]

\* The cron trigger: fetch the recent orders and enter the loop.
preGenerateZips(r) ==
    /\ run[r].pc = "idle"
    /\ run' = [run EXCEPT ![r] = LoopAt(findRecentOrders(maxRecentOrders), 1)]
    /\ lastOp' = NoOp
    /\ UNCHANGED <<orders, files, memCache, stats, dl, now, keyIn, keyOut, maint, boot, asm>>

\* A check that takes a temporary file left in the directory for a generation
\* in flight and skips the order.
PreGenCheckLocked(r) ==
    /\ run[r].pc = "check"
    /\ IF \/ fileExists(getZipPath(Current(r)))
          \/ fileExists(TempPath(getZipPath(Current(r))))
       THEN run' = [run EXCEPT ![r] = LoopAt(run[r].recent, run[r].idx + 1)]
       ELSE run' = [run EXCEPT ![r].pc = "gen"]
    /\ lastOp' = NoOp
    /\ UNCHANGED <<orders, files, memCache, stats, dl, now, keyIn, keyOut, maint, boot, asm>>

\* A check that generates whether or not the artifact exists.
PreGenCheckAlways(r) ==
    /\ run[r].pc = "check"
    /\ run' = [run EXCEPT ![r].pc = "gen"]
    /\ lastOp' = NoOp
    /\ UNCHANGED <<orders, files, memCache, stats, dl, now, keyIn, keyOut, maint, boot, asm>>

\* if (await this.fileExists(zipPath)) { skippedCount++; continue }
\* otherwise generateZipFile is called: createWriteStream(tempPath) is issued and
\* the assembly starts.
PreGenCheck(r) ==
    /\ run[r].pc = "check"
    /\ IF fileExists(getZipPath(Current(r)))
       THEN run' = [run EXCEPT ![r] = LoopAt(run[r].recent, run[r].idx + 1)]
       ELSE run' = [run EXCEPT ![r].pc = "gen"]
    /\ lastOp' = NoOp
    /\ UNCHANGED <<orders, files, memCache, stats, dl, now, keyIn, keyOut, maint, boot, asm>>

\* fs.createWriteStream(tempPath) opens with flags 'w': the file at tempPath is
\* created, or truncated when it exists (and other streams may hold it).
OpenTemp(r) ==
    /\ run[r].pc = "gen"
    /\ boot.cacheDirectory
    /\ LET tempPath == TempPath(getZipPath(Current(r)))
           blank == [name |-> tempPath, w |-> {r}, rd |-> {}, st |-> {},
                     data |-> EmptyData, size |-> 0, mtime |-> now]
       IN  IF fileExists(tempPath)
           THEN LET o == FileAt(tempPath)
                IN  files' = (files \ {o}) \cup
                             {[blank EXCEPT !.w = o.w \cup {r}, !.rd = o.rd]}
           ELSE files' = files \cup {blank}
    /\ run' = [run EXCEPT ![r].pc = "writing", ![r].off = 0]
    /\ lastOp' = NoOp
    /\ UNCHANGED <<orders, memCache, stats, dl, now, keyIn, keyOut, maint, boot, asm>>

\* One write of the assembly through passThrough into the write stream: the next
\* chunk lands at the stream's own offset in the file it holds.
WriteChunk(r) ==
    /\ run[r].pc = "writing"
    /\ run[r].off < NumChunks
    /\ LET c == run[r].off + 1
           end == (c * ArchiveBytes(Current(r))) \div NumChunks
           o == Held(r)
       IN  files' = (files \ {o}) \cup
                    {[o EXCEPT !.data[c] = TRUE,
                               !.size = IF end > o.size THEN end ELSE o.size,
                               !.mtime = now]}
    /\ run' = [run EXCEPT ![r].off = @ + 1]
    /\ lastOp' = NoOp
    /\ UNCHANGED <<orders, memCache, stats, dl, now, keyIn, keyOut, maint, boot, asm>>

\* The files after rename(tempPath, outputPath): the file at tempPath takes the
\* name outputPath; a file that had it loses its name.
Rename(fs, tempPath, outputPath, r) ==
    Prune({IF o.name = tempPath THEN [o EXCEPT !.name = outputPath, !.st = {r}]
           ELSE IF o.name = outputPath THEN [o EXCEPT !.name = NoName, !.st = {}]
           ELSE o : o \in fs})

\* The write stream of r is closed.
Close(fs, r) == Prune({[o EXCEPT !.w = @ \ {r}] : o \in fs})

\* stream.on('finish'): rename(tempPath, outputPath), cacheManager.set(cacheKey,
\* outputPath), resolve; preGenerateZips goes on to enforceMaxCacheSize. When the
\* rename throws (no file at tempPath) the promise rejects and the loop logs
\* the error and turns to the next order.
StreamFinish(r) ==
    /\ run[r].pc = "writing"
    /\ run[r].off = NumChunks
    /\ LET outputPath == getZipPath(Current(r))
           tempPath == TempPath(outputPath)
           cacheKey == cacheKeyOf[Current(r)]
       IN  IF fileExists(tempPath)
           THEN /\ files' = Rename(Close(files, r), tempPath, outputPath, r)
                /\ memCache' = [k \in (DOMAIN memCache) \cup {cacheKey} |->
                                IF k = cacheKey THEN outputPath ELSE memCache[k]]
                /\ run' = [run EXCEPT ![r].pc = "enforce"]
           ELSE /\ files' = Close(files, r)
                /\ memCache' = memCache
                /\ run' = [run EXCEPT ![r] = LoopAt(run[r].recent, run[r].idx + 1)]
    /\ lastOp' = NoOp
    /\ UNCHANGED <<orders, stats, dl, now, keyIn, keyOut, maint, boot, asm>>

\* A failure that lets the 'finish' handler run all the same.
GenerationFailsPublishing(r) ==
    /\ run[r].pc \in {"gen", "writing"}
    /\ files' = Rename(Close(files, r), TempPath(getZipPath(Current(r))),
                       getZipPath(Current(r)), r)
    /\ run' = [run EXCEPT ![r] = LoopAt(run[r].recent, run[r].idx + 1)]
    /\ lastOp' = [op |-> "generateZipFile rejects", r |-> r, dirs |-> Current(r),
                  idx |-> run[r].idx, opened |-> run[r].pc = "writing",
                  published |-> fileExists(getZipPath(Current(r))),
                  memCache |-> memCache]
    /\ UNCHANGED <<orders, memCache, stats, dl, now, keyIn, keyOut, maint, boot, asm>>

\* A failure that escapes the loop's try/catch and ends the invocation.
GenerationFailsAbortingBatch(r) ==
    /\ run[r].pc \in {"gen", "writing"}
    /\ files' = Close(files, r)
    /\ run' = [run EXCEPT ![r] = IdleRun]
    /\ lastOp' = [op |-> "generateZipFile rejects", r |-> r, dirs |-> Current(r),
                  idx |-> run[r].idx, opened |-> run[r].pc = "writing",
                  published |-> fileExists(getZipPath(Current(r))),
                  memCache |-> memCache]
    /\ UNCHANGED <<orders, memCache, stats, dl, now, keyIn, keyOut, maint, boot, asm>>

\* stream.on('error') or a rejected processDirectoriesAsync: generateZipFile
\* rejects, nothing is renamed, nothing is unlinked, the loop turns to the next
\* order.
GenerationFails(r) ==
    /\ run[r].pc \in {"gen", "writing"}
    /\ files' = Close(files, r)
    /\ run' = [run EXCEPT ![r] = LoopAt(run[r].recent, run[r].idx + 1)]
    /\ lastOp' = [op |-> "generateZipFile rejects", r |-> r, dirs |-> Current(r),
                  idx |-> run[r].idx, opened |-> run[r].pc = "writing",
                  published |-> fileExists(getZipPath(Current(r))),
                  memCache |-> memCache]
    /\ UNCHANGED <<orders, memCache, stats, dl, now, keyIn, keyOut, maint, boot, asm>>

\* The mark of a just-stored artifact goes when the invocation moves on.
Unmark(fs, r) == {[o EXCEPT !.st = @ \ {r}] : o \in fs}

\* await this.enforceMaxCacheSize() after a successful generateZipFile.
EnforceAfterStore(r) ==
    /\ run[r].pc = "enforce"
    /\ \E fileInfos \in Perms(getCacheFileInfos), fail \in SUBSET getZipFiles :
          LET res == enforceMaxCacheSize(fileInfos, fail)
          IN  /\ files' = Unmark(Unlink(files, res.deleted), r)
              /\ lastOp' = [op |-> "enforce", listed |-> getCacheFileInfos,
                            deleted |-> res.deleted, failed |-> res.failed,
                            at |-> now, r |-> r, idx |-> run[r].idx]
    /\ run' = [run EXCEPT ![r] = LoopAt(run[r].recent, run[r].idx + 1)]
    /\ UNCHANGED <<orders, memCache, stats, dl, now, keyIn, keyOut, maint, boot, asm>>

(***************************************************************************)
(* SimpleCacheService.getCachedZip, as a function of the state: the path   *)
(* it returns (NoName for null), the memory cache it leaves, the statistic *)
(* it increments.                                                          *)
(***************************************************************************)
\* A lookup that leaves a stale entry where it is.
SweepNothing(cacheKey, cached) == memCache

\* The memory cache after the lookup of cacheKey found `cached`: a stale entry
\* (its file is gone) is deleted before the filesystem fallback.
Sweep(cacheKey, cached) ==
    IF cached # NoName /\ ~fileExists(cached)
    THEN Remove(memCache, {cacheKey}) ELSE memCache

\* A lookup that returns the path of the memory cache without looking at the
\* file.
getCachedZipTrusting(directoryPaths) ==
    LET cacheKey == cacheKeyOf[directoryPaths]
        zipPath == getZipPath(directoryPaths)
    IN  IF cacheKey \in DOMAIN memCache
        THEN [path |-> memCache[cacheKey], memCache |-> memCache, stat |-> "hits"]
        ELSE IF fileExists(zipPath)
        THEN [path |-> zipPath,
              memCache |-> [k \in (DOMAIN memCache) \cup {cacheKey} |->
                               IF k = cacheKey THEN zipPath ELSE memCache[k]],
              stat |-> "hits"]
        ELSE [path |-> NoName, memCache |-> memCache, stat |-> "misses"]

getCachedZip(directoryPaths) ==
    LET cacheKey == cacheKeyOf[directoryPaths]
        zipPath == getZipPath(directoryPaths)
        cached == IF cacheKey \in DOMAIN memCache THEN memCache[cacheKey] ELSE NoName
        swept == Sweep(cacheKey, cached)
    IN  IF cached # NoName /\ fileExists(cached)
        THEN [path |-> cached, memCache |-> memCache, stat |-> "hits"]
        ELSE IF fileExists(zipPath)
        THEN [path |-> zipPath,
              memCache |-> [k \in (DOMAIN swept) \cup {cacheKey} |->
                               IF k = cacheKey THEN zipPath ELSE swept[k]],
              stat |-> "hits"]
        ELSE [path |-> NoName, memCache |-> swept, stat |-> "misses"]

\* The memory cache holds an entry for the key of directoryPaths whose file is gone.
Stale(directoryPaths) ==
    LET cacheKey == cacheKeyOf[directoryPaths]
    IN  cacheKey \in DOMAIN memCache /\ ~fileExists(memCache[cacheKey])

(***************************************************************************)
(* TransferController.download: one request d.                             *)
(***************************************************************************)
\* orderService.findByToken(token): the order of that token, NoOp for null.
findByToken(token) ==
    LET found == {i \in 1..Len(orders) : orders[i].token = token}
    IN  IF found = {} THEN NoOp ELSE orders[CHOOSE i \in found : TRUE]

\* A validation that does not look at the expiry.
validateTokenForever(token) ==
    IF token = 0 THEN NoOp ELSE findByToken(token)

\* validateToken: NotFoundException (NoOp here) for a blank token (0), an
\* unknown token, or order.tokenExpiry < new Date().
validateToken(token) ==
    LET order == findByToken(token)
    IN  IF token = 0 THEN NoOp
        ELSE IF order = NoOp THEN NoOp
        ELSE IF order.tokenExpiry < now THEN NoOp
        ELSE order

\* The tokens a request may carry: blank, those of the orders, an unknown one.
Tokens == 0..(MaxOrders + 2)

\* The first await of download. thrown: findByToken fails with an error of its
\* own, which the catch block turns into InternalServerErrorException; a blank
\* token is rejected before findByToken is called.
DownloadValidate(d, token) ==
    /\ dl[d].pc = "idle"
    /\ \E thrown \in BOOLEAN :
          /\ IF token # 0 /\ thrown
             THEN dl' = [dl EXCEPT ![d] = Ended("internal")]
             ELSE LET order == validateToken(token)
                  IN  IF order = NoOp
                      THEN dl' = [dl EXCEPT ![d] = Ended("notfound")]
                      ELSE dl' = [dl EXCEPT ![d].pc = "lookup", ![d].dirs = order.dirs]
          /\ lastOp' = [op |-> "validateToken", d |-> d, token |-> token,
                        thrown |-> (token # 0 /\ thrown), at |-> now,
                        stats |-> stats, memCache |-> memCache]
    /\ UNCHANGED <<orders, files, memCache, stats, run, now, keyIn, keyOut, maint, boot, asm>>

\* A handler that waits while a generation of its key is in flight.
LookupReadyWaiting(d) ==
    \A r \in Runs :
        run[r].pc \in {"gen", "writing"} =>
            generateCacheKey(Current(r)) # generateCacheKey(dl[d].dirs)

\* Nothing in download makes the lookup wait for anything.
LookupReady(d) == TRUE

\* getCachedZip, then: a hit creates the read stream of the cached file, a miss
\* creates the PassThrough and the archiver and starts processDirectoriesAsync in
\* the background; either way the StreamableFile is returned.
DownloadLookup(d) ==
    /\ dl[d].pc = "lookup"
    /\ LookupReady(d)
    /\ \E res \in {getCachedZip(dl[d].dirs)} :
           /\ memCache' = res.memCache
           /\ stats' = [stats EXCEPT ![res.stat] = @ + 1]
           /\ IF res.path # NoName
              THEN dl' = [dl EXCEPT ![d].pc = "open", ![d].path = res.path]
              ELSE dl' = [dl EXCEPT ![d].pc = "realtime"]
           /\ lastOp' = [op |-> "getCachedZip", d |-> d, dirs |-> dl[d].dirs,
                         path |-> res.path, stale |-> Stale(dl[d].dirs),
                         hits |-> stats.hits, misses |-> stats.misses]
    /\ UNCHANGED <<orders, files, run, now, keyIn, keyOut, maint, boot, asm>>

\* The calls of cacheManager in getCachedZip that may throw.
CacheCalls == {"get", "del", "set"}

\* getCachedZip when a call of cacheManager throws: the catch block falls back
\* to fileExists(zipPath) and counts nothing. get is the first call; del is
\* reached for a stale entry; set is reached when there is no valid entry and
\* the file exists, after a stale entry has been deleted.
getCachedZipFallback(directoryPaths, thrown) ==
    LET cacheKey == cacheKeyOf[directoryPaths]
        zipPath == getZipPath(directoryPaths)
        cached == IF cacheKey \in DOMAIN memCache THEN memCache[cacheKey] ELSE NoName
        stale == cached # NoName /\ ~fileExists(cached)
        valid == cached # NoName /\ fileExists(cached)
    IN  [reached |-> CASE thrown = "get" -> TRUE
                      [] thrown = "del" -> stale
                      [] thrown = "set" -> ~valid /\ fileExists(zipPath),
         path |-> IF fileExists(zipPath) THEN zipPath ELSE NoName,
         memCache |-> IF thrown = "set" THEN Sweep(cacheKey, cached) ELSE memCache]

\* The lookup of download when the memory cache fails in it.
DownloadLookupFallback(d, thrown) ==
    /\ dl[d].pc = "lookup"
    /\ \E res \in {getCachedZipFallback(dl[d].dirs, thrown)} :
           /\ res.reached
           /\ memCache' = res.memCache
           /\ IF res.path # NoName
              THEN dl' = [dl EXCEPT ![d].pc = "open", ![d].path = res.path]
              ELSE dl' = [dl EXCEPT ![d].pc = "realtime"]
           /\ lastOp' = [op |-> "getCachedZip fallback", d |-> d,
                         dirs |-> dl[d].dirs, path |-> res.path,
                         thrown |-> thrown, stale |-> Stale(dl[d].dirs),
                         hits |-> stats.hits, misses |-> stats.misses]
    /\ UNCHANGED <<orders, files, stats, run, now, keyIn, keyOut, maint, boot, asm>>

\* getCachedZip up to the first await of incrementStat: the lookup is done and
\* `current = (await this.cacheManager.get(key)) || 0` has read the counter.
DownloadLookupRead(d) ==
    /\ dl[d].pc = "lookup"
    /\ \E res \in {getCachedZip(dl[d].dirs)} :
           /\ memCache' = res.memCache
           /\ dl' = [dl EXCEPT ![d] = [pc |-> "count", dirs |-> dl[d].dirs,
                                       path |-> res.path, stat |-> res.stat,
                                       current |-> stats[res.stat]]]
    /\ lastOp' = NoOp
    /\ UNCHANGED <<orders, files, stats, run, now, keyIn, keyOut, maint, boot, asm>>

\* The second await of incrementStat: cacheManager.set(key, current + 1, 0);
\* getCachedZip returns and download goes on as after DownloadLookup.
DownloadCount(d) ==
    /\ dl[d].pc = "count"
    /\ stats' = [stats EXCEPT ![dl[d].stat] = dl[d].current + 1]
    /\ IF dl[d].path # NoName
       THEN dl' = [dl EXCEPT ![d] = [pc |-> "open", dirs |-> dl[d].dirs,
                                    path |-> dl[d].path]]
       ELSE dl' = [dl EXCEPT ![d] = [pc |-> "realtime", dirs |-> dl[d].dirs,
                                    path |-> NoName]]
    /\ lastOp' = [op |-> "incrementStat", d |-> d, stat |-> dl[d].stat,
                  current |-> dl[d].current]
    /\ UNCHANGED <<orders, files, memCache, run, now, keyIn, keyOut, maint, boot, asm>>

\* fs.createReadStream(cachedZipPath) opens the file; the stream fails when the
\* name is gone by then.
DownloadOpen(d) ==
    /\ dl[d].pc = "open"
    /\ IF fileExists(dl[d].path)
       THEN /\ dl' = [dl EXCEPT ![d].pc = "streaming"]
            /\ files' = (files \ {FileAt(dl[d].path)}) \cup
                        {[FileAt(dl[d].path) EXCEPT !.rd = @ \cup {d}]}
       ELSE /\ dl' = [dl EXCEPT ![d] = Ended("error")]
            /\ files' = files
    /\ lastOp' = NoOp
    /\ UNCHANGED <<orders, memCache, stats, run, now, keyIn, keyOut, maint, boot, asm>>

\* The read stream of a cache hit ends and closes its handle.
DownloadEnd(d) ==
    /\ dl[d].pc = "streaming"
    /\ dl' = [dl EXCEPT ![d] = Ended("done")]
    /\ files' = Prune({[o EXCEPT !.rd = @ \ {d}] : o \in files})
    /\ lastOp' = NoOp
    /\ UNCHANGED <<orders, memCache, stats, run, now, keyIn, keyOut, maint, boot, asm>>

\* The real-time assembly finalizes the archive, or fails and destroys the stream:
\* its only sink is the PassThrough handed to the response.
RealtimeEnd(d) ==
    /\ dl[d].pc = "realtime"
    /\ \E outcome \in {"done", "error"} :
          /\ dl' = [dl EXCEPT ![d] = Ended(outcome)]
          /\ lastOp' = [op |-> "realtime", d |-> d, dirs |-> dl[d].dirs,
                        outcome |-> outcome]
    /\ UNCHANGED <<orders, files, memCache, stats, run, now, keyIn, keyOut, maint, boot, asm>>

(***************************************************************************)
(* The cache management endpoints and the clock.                           *)
(***************************************************************************)
\* POST cache/flush/:hours -> flushCacheOlderThan(hours * 3600000)
FlushOld(ageInMs) ==
    /\ \E fail \in SUBSET getZipFiles :
          LET res == flushCacheOlderThan(getCacheFileInfos, ageInMs, fail)
          IN  /\ files' = Unlink(files, res.deleted)
              /\ lastOp' = [op |-> "flushOlderThan", listed |-> getCacheFileInfos,
                            deleted |-> res.deleted, failed |-> res.failed,
                            at |-> now, ageInMs |-> ageInMs,
                            deletedFiles |-> res.deletedFiles,
                            totalSizeMB |-> res.totalSizeMB]
    /\ UNCHANGED <<orders, memCache, stats, run, dl, now, keyIn, keyOut, maint, boot, asm>>

\* A flush that leaves the statistics as they are.
clearNothing == stats

\* clearAllRedisCache: del('cache:stats:hits'), del('cache:stats:misses'), after
\* which both read as 0; the entries of ZIP paths are left to their TTL.
clearAllRedisCache == [hits |-> 0, misses |-> 0]

\* POST cache/flush -> flushAllCache, which ends with clearAllRedisCache.
FlushAll ==
    /\ \E fail \in SUBSET getZipFiles :
          LET res == flushAllCache(getCacheFileInfos, fail)
          IN  /\ files' = Unlink(files, res.deleted)
              /\ lastOp' = [op |-> "flushAll", listed |-> getCacheFileInfos,
                            deleted |-> res.deleted, failed |-> res.failed,
                            at |-> now,
                            deletedFiles |-> res.deletedFiles,
                            totalSizeMB |-> res.totalSizeMB,
                            hits |-> stats.hits, misses |-> stats.misses]
    /\ stats' = clearAllRedisCache
    /\ UNCHANGED <<orders, memCache, run, dl, now, keyIn, keyOut, maint, boot, asm>>

ClockTick ==
    /\ now < MaxTime
    /\ now' = now + 1
    /\ lastOp' = NoOp
    /\ UNCHANGED <<orders, files, memCache, stats, run, dl, keyIn, keyOut, maint, boot, asm>>

\* More than maxCacheAgeHours pass.
DayPasses ==
    /\ now + maxCacheAgeHours + 1 <= MaxDays * (maxCacheAgeHours + 1)
    /\ now' = now + maxCacheAgeHours + 1
    /\ lastOp' = NoOp
    /\ UNCHANGED <<orders, files, memCache, stats, run, dl, keyIn, keyOut, maint, boot, asm>>

(***************************************************************************)
(* SimpleCacheService.performDailyMaintenance, the cron job of 3 AM.       *)
(***************************************************************************)
\* A sweep that only removes the old files.
flushOldCache ==
    /\ maint.pc = "idle"
    /\ \E fail \in SUBSET getZipFiles :
          LET maxAgeMs == maxCacheAgeHours
              ageResult == flushCacheOlderThan(getCacheFileInfos, maxAgeMs, fail)
          IN  /\ files' = Unlink(files, ageResult.deleted)
              /\ maint' = [pc |-> "idle", calls |-> <<"flushCacheOlderThan">>,
                           deletedFiles |-> ageResult.deletedFiles]
              /\ lastOp' = [op |-> "maintenance flush", listed |-> getCacheFileInfos,
                            deleted |-> ageResult.deleted,
                            failed |-> ageResult.failed,
                            at |-> now, ageInMs |-> maxAgeMs]
    /\ UNCHANGED <<orders, memCache, stats, run, dl, now, keyIn, keyOut, boot, asm>>

\* The trigger and the first call: await this.flushCacheOlderThan(maxAgeMs),
\* which throws nothing (getZipFiles returns [] when readdir fails, stat and
\* unlink are caught per file).
performDailyMaintenance ==
    /\ maint.pc = "idle"
    /\ \E fail \in SUBSET getZipFiles :
          LET maxAgeMs == maxCacheAgeHours
              ageResult == flushCacheOlderThan(getCacheFileInfos, maxAgeMs, fail)
          IN  /\ files' = Unlink(files, ageResult.deleted)
              /\ maint' = [pc |-> "size", calls |-> <<"flushCacheOlderThan">>,
                           deletedFiles |-> ageResult.deletedFiles]
              /\ lastOp' = [op |-> "maintenance flush", listed |-> getCacheFileInfos,
                            deleted |-> ageResult.deleted,
                            failed |-> ageResult.failed,
                            at |-> now, ageInMs |-> maxAgeMs]
    /\ UNCHANGED <<orders, memCache, stats, run, dl, now, keyIn, keyOut, boot, asm>>

\* The second call: await this.enforceMaxCacheSize(); the sweep logs and returns.
MaintenanceEnforce ==
    /\ maint.pc = "size"
    /\ \E fileInfos \in Perms(getCacheFileInfos), fail \in SUBSET getZipFiles :
          LET res == enforceMaxCacheSize(fileInfos, fail)
          IN  /\ files' = Unlink(files, res.deleted)
              /\ lastOp' = [op |-> "maintenance size check",
                            listed |-> getCacheFileInfos,
                            deleted |-> res.deleted, failed |-> res.failed,
                            at |-> now]
    /\ maint' = [maint EXCEPT !.pc = "idle",
                              !.calls = Append(@, "enforceMaxCacheSize")]
    /\ UNCHANGED <<orders, memCache, stats, run, dl, now, keyIn, keyOut, boot, asm>>

RunStep(r) ==
    \/ preGenerateZips(r)
    \/ PreGenCheck(r)
    \/ OpenTemp(r)
    \/ WriteChunk(r)
    \/ StreamFinish(r)
    \/ GenerationFails(r)
    \/ EnforceAfterStore(r)

DownloadStep(d) ==
    \/ \E token \in Tokens : DownloadValidate(d, token)
    \/ DownloadLookup(d)
    \/ DownloadOpen(d)
    \/ DownloadEnd(d)
    \/ RealtimeEnd(d)

(***************************************************************************)
(* Overlapping preGenerateZips invocations (the cron fires every 30        *)
(* seconds, whether or not the last invocation has returned) and manual    *)
(* flushes.                                                                *)
(***************************************************************************)
Next ==
    \/ \E r \in Runs : RunStep(r)
    \/ FlushAll

Spec == Init /\ [][Next]_vars

(***************************************************************************)
(* Download requests against one preGenerateZips invocation at a time and  *)
(* manual flushes.                                                         *)
(***************************************************************************)
NextDl ==
    \/ RunStep(1)
    \/ \E d \in Downloads : DownloadStep(d)
    \/ FlushAll

SpecDl == Init /\ [][NextDl]_vars

(***************************************************************************)
(* One download request against one invocation at a time, under fairness   *)
(* of the request's lookup: once validateToken has returned the order, the *)
(* handler goes on to getCachedZip and to the StreamableFile, each an      *)
(* awaited call of its own. Nothing is assumed of the generations or of    *)
(* the flushes, which may stall or never come.                             *)
(***************************************************************************)
NextOne ==
    \/ RunStep(1)
    \/ DownloadStep(1)
    \/ FlushAll

FairSpecDl == Init /\ [][NextOne]_vars /\ WF_vars(DownloadLookup(1))

(***************************************************************************)
(* One invocation at a time and one download request, under fairness of    *)
(* the scheduled job and of the request: the cron fires every 30 seconds,  *)
(* every awaited call of the loop returns or throws (a generation ends by  *)
(* the write stream's 'finish' or by a rejection), and the handler goes on *)
(* to its lookup. Which of the two ends a generation has is left open.     *)
(***************************************************************************)
FairSpecRetry ==
    Init /\ [][NextOne]_vars /\ WF_vars(RunStep(1)) /\ WF_vars(DownloadLookup(1))

(***************************************************************************)
(* Size and age eviction: one invocation at a time over orders of distinct *)
(* keys, the clock, the flush endpoints.                                   *)
(***************************************************************************)
InitEvict ==
    /\ \E os \in EvictOrderSeqs : orders = Placed(os)
    /\ InitCache
    /\ boot = Started

NextEvict ==
    \/ RunStep(1)
    \/ ClockTick
    \/ \E ageInMs \in 0..MaxTime : FlushOld(ageInMs)
    \/ FlushAll

SpecEvict == InitEvict /\ [][NextEvict]_vars

(***************************************************************************)
(* One download request and one invocation at a time while the clock runs  *)
(* past the expiry of the oldest order's token.                            *)
(***************************************************************************)
NextToken ==
    \/ RunStep(1)
    \/ DownloadStep(1)
    \/ ClockTick

SpecToken == Init /\ [][NextToken]_vars

(***************************************************************************)
(* One download request against one invocation at a time and flushes,      *)
(* with a memory cache that may fail in the lookup.                        *)
(***************************************************************************)
NextLookup ==
    \/ RunStep(1)
    \/ DownloadStep(1)
    \/ \E thrown \in CacheCalls : DownloadLookupFallback(1, thrown)
    \/ FlushAll

SpecLookup == Init /\ [][NextLookup]_vars

(***************************************************************************)
(* The statistics endpoint, a download request, the flushes and the clock  *)
(* against one invocation at a time, over orders of distinct keys.         *)
(***************************************************************************)
\* getCacheStats: the ZIP files of the listing, their total size, the counters.
getCacheStats ==
    [fileCount |-> Cardinality(getZipFiles),
     totalSizeMB |-> bytesToMB(SumSizes(getCacheFileInfos)),
     hits |-> stats.hits, misses |-> stats.misses]

\* GET cache/stats
GetCacheStats ==
    /\ lastOp' = [op |-> "getCacheStats", result |-> getCacheStats]
    /\ UNCHANGED <<orders, files, memCache, stats, run, dl, now, keyIn, keyOut, maint, boot, asm>>

NextTemp ==
    \/ RunStep(1)
    \/ DownloadStep(1)
    \/ ClockTick
    \/ \E ageInMs \in 0..MaxTime : FlushOld(ageInMs)
    \/ FlushAll
    \/ GetCacheStats

\* Two orders of distinct keys whose archives (25 and 32 bytes) do not fit
\* under the ceiling together.
InitTemp ==
    /\ orders = Placed(<<<<<<97, 98>>>>, <<<<97>>, <<98>>>>>>)
    /\ InitCache
    /\ boot = Started

SpecTemp == InitTemp /\ [][NextTemp]_vars

(***************************************************************************)
(* One invocation at a time over two recent orders of the same set of      *)
(* directories, and manual flushes: the same list in another order, or the *)
(* same list with a directory named twice.                                 *)
(***************************************************************************)
SameSetOrderSeqs ==
    {<<<<<<97>>, <<98>>>>, <<<<98>>, <<97>>>>>>,
     <<<<<<97>>, <<97>>>>, <<<<97>>>>>>}

InitSame ==
    /\ \E os \in SameSetOrderSeqs : orders = Placed(os)
    /\ InitCache
    /\ boot = Started

NextSame ==
    \/ RunStep(1)
    \/ FlushAll

SpecSame == InitSame /\ [][NextSame]_vars

(***************************************************************************)
(* Pre-generation on a cache directory that holds artifacts of an earlier  *)
(* life of the process: one invocation after the other, every generation   *)
(* reaching its 'finish', no flush. The directory may hold the artifact of  *)
(* the newest order and, stored after it, the artifact of an order that is *)
(* no longer among the recent ones.                                        *)
(***************************************************************************)
\* A complete artifact of directoryPaths, last written at mtime.
Stored(directoryPaths, mtime) ==
    [name |-> getZipPath(directoryPaths), w |-> {}, rd |-> {}, st |-> {},
     data |-> [c \in Chunks |-> TRUE], size |-> ArchiveBytes(directoryPaths),
     mtime |-> mtime]

LeftArtifacts == {Stored(<<<<97>>>>, 0), Stored(<<<<99>>>>, MaxTime)}

ConvOrderSeqs ==
    {<<<<<<98>>>>>>,
     <<<<<<97>>>>, <<<<98>>>>>>,
     <<<<<<98>>>>, <<<<97>>>>>>,
     <<<<<<97>>, <<98>>>>, <<<<98>>, <<97>>>>>>}

InitConv ==
    /\ \E os \in ConvOrderSeqs : orders = Placed(os)
    /\ \E left \in SUBSET LeftArtifacts : files = left
    /\ now = MaxTime
    /\ asm = IdleAsm
    /\ memCache = EmptyMap
    /\ stats = [hits |-> 0, misses |-> 0]
    /\ run = [r \in Runs |-> IdleRun]
    /\ dl = [d \in Downloads |-> IdleDownload]
    /\ lastOp = NoOp
    /\ keyIn = <<>>
    /\ keyOut = NoKey
    /\ maint = IdleMaint
    /\ boot = Started

NextConv ==
    \/ preGenerateZips(1)
    \/ PreGenCheck(1)
    \/ OpenTemp(1)
    \/ WriteChunk(1)
    \/ StreamFinish(1)
    \/ EnforceAfterStore(1)

SpecConv == InitConv /\ [][NextConv]_vars

(***************************************************************************)
(* TransferController.associate: the request body as the handler reads it, *)
(* the response, and the order createOrder saves.                          *)
(***************************************************************************)
\* The bodies of POST transfer/associate: directoryPaths missing, empty, or a
\* list of directories.
AssociateBodies ==
    {[present |-> FALSE, directoryPaths |-> <<>>]} \cup
    {[present |-> TRUE, directoryPaths |-> d] : d \in {<<>>} \cup OrderDirs}

\* An associate that hands every body to createOrder.
associateUnchecked(associateDto, token, thrown) ==
    IF thrown
    THEN [response |-> "InternalServerError", createOrderCalled |-> TRUE,
          token |-> 0, saved |-> <<>>]
    ELSE [response |-> "Created", createOrderCalled |-> TRUE, token |-> token,
          saved |-> <<[dirs |-> associateDto.directoryPaths, token |-> token,
                       tokenExpiry |-> now + TokenHours]>>]

\* associate: if (!associateDto.directoryPaths?.length) throw BadRequest; then
\* createOrder inside try, whose catch throws InternalServerError. `thrown`
\* says whether createOrder rejects; token 0 stands for no token returned.
associate(associateDto, token, thrown) ==
    IF ~associateDto.present \/ Len(associateDto.directoryPaths) = 0
    THEN [response |-> "BadRequest", createOrderCalled |-> FALSE, token |-> 0,
          saved |-> <<>>]
    ELSE IF thrown
    THEN [response |-> "InternalServerError", createOrderCalled |-> TRUE,
          token |-> 0, saved |-> <<>>]
    ELSE [response |-> "Created", createOrderCalled |-> TRUE, token |-> token,
          saved |-> <<[dirs |-> associateDto.directoryPaths, token |-> token,
                       tokenExpiry |-> now + TokenHours]>>]

\* POST transfer/associate; the new order is the newest of the collection.
Associate(associateDto, thrown) ==
    /\ Len(orders) < MaxOrders
    /\ LET res == associate(associateDto, Len(orders) + 1, thrown)
       IN  /\ orders' = res.saved \o orders
           /\ lastOp' = [op |-> "associate", body |-> associateDto,
                         thrown |-> thrown, response |-> res.response,
                         createOrderCalled |-> res.createOrderCalled,
                         token |-> res.token, before |-> orders]
    /\ UNCHANGED <<files, memCache, stats, run, dl, now, keyIn, keyOut, maint, boot, asm>>

InitAssociate ==
    /\ orders = <<>>
    /\ InitCache
    /\ boot = Started

NextAssociate ==
    \/ \E associateDto \in AssociateBodies, thrown \in BOOLEAN :
          Associate(associateDto, thrown)
    \/ RunStep(1)
    \/ ClockTick

SpecAssociate == InitAssociate /\ [][NextAssociate]_vars

(***************************************************************************)
(* Concurrent download requests whose incrementStat is followed await by   *)
(* await: the read of the counter and its write are steps of their own.    *)
(***************************************************************************)
DownloadStepCounting(d) ==
    \/ \E token \in Tokens : DownloadValidate(d, token)
    \/ DownloadLookupRead(d)
    \/ DownloadCount(d)
    \/ DownloadOpen(d)
    \/ DownloadEnd(d)
    \/ RealtimeEnd(d)

NextStats ==
    \/ RunStep(1)
    \/ \E d \in Downloads : DownloadStepCounting(d)

SpecStats == Init /\ [][NextStats]_vars

(***************************************************************************)
(* The start of the application: the constructor of SimpleCacheService     *)
(* calls ensureCacheDirectory, onModuleInit of PhotosConfigService awaits  *)
(* validateConfiguration, and main.ts exits when the start rejects. Cron   *)
(* jobs and routes are served once the start has succeeded.                *)
(***************************************************************************)
\* What the start may find: the cache directory can be created or not, the
\* photos base path is a readable directory, a file, or missing.
BootStates ==
    [pc : {"starting"}, cacheDirectory : BOOLEAN,
     photosBase : {"directory", "file", "missing"}]

\* ensureCacheDirectory: mkdir(recursive); a failure is caught and logged, in
\* the method and again in the constructor. TRUE when the call throws.
ensureCacheDirectory(created) == FALSE

\* validateConfiguration: access(R_OK) and stat().isDirectory(), otherwise the
\* error is logged and thrown again. TRUE when the call throws.
validateConfiguration(photosBase) == photosBase # "directory"

Bootstrap ==
    /\ boot.pc = "starting"
    /\ IF ensureCacheDirectory(boot.cacheDirectory)
          \/ validateConfiguration(boot.photosBase)
       THEN boot' = [boot EXCEPT !.pc = "failed"]
       ELSE boot' = [boot EXCEPT !.pc = "serving"]
    /\ lastOp' = NoOp
    /\ UNCHANGED <<orders, files, memCache, stats, run, dl, now, keyIn, keyOut, maint, asm>>

Serving ==
    /\ boot.pc = "serving"
    /\ \/ RunStep(1)
       \/ DownloadStep(1)

InitBoot ==
    /\ \E os \in OrderSeqs : orders = Placed(os)
    /\ InitCache
    /\ boot \in BootStates

NextBoot ==
    \/ Bootstrap
    \/ Serving

SpecBoot == InitBoot /\ [][NextBoot]_vars

(***************************************************************************)
(* FileProcessingService and PhotosConfigService: one assembly, that is    *)
(* one processDirectoriesAsync call on an archiver piped into the          *)
(* PassThrough that a real-time download hands to the requester.           *)
(* Paths and file names are strings of character codes: 46 = ".",          *)
(* 47 = "/", 65..90 = "A".."Z", 97..122 = "a".."z".                          *)
(***************************************************************************)
MaxAsmDirs == 2         \* length of the directoryPaths of an assembly

\* String.prototype.toLowerCase on ASCII.
toLowerCase(str) ==
    [i \in 1..Len(str) |-> IF str[i] >= 65 /\ str[i] <= 90 THEN str[i] + 32 ELSE str[i]]

\* The last index of character c in str, 0 when there is none.
LastIndexOf(str, c) ==
    LET at == {i \in 1..Len(str) : str[i] = c}
    IN  IF at = {} THEN 0 ELSE CHOOSE i \in at : \A j \in at : j <= i

\* str without its trailing slashes.
RECURSIVE StripTrailingSlashes(_)
StripTrailingSlashes(str) ==
    IF str # <<>> /\ str[Len(str)] = 47
    THEN StripTrailingSlashes(SubSeq(str, 1, Len(str) - 1))
    ELSE str

\* str without its leading slashes.
RECURSIVE StripLeadingSlashes(_)
StripLeadingSlashes(str) ==
    IF str # <<>> /\ Head(str) = 47 THEN StripLeadingSlashes(Tail(str)) ELSE str

\* path.basename: the part after the last slash, trailing slashes ignored.
basename(p) ==
    LET q == StripTrailingSlashes(p)
    IN  SubSeq(q, LastIndexOf(q, 47) + 1, Len(q))

\* path.extname: from the last "." of the basename to its end; empty when
\* there is no "." or the basename starts with its only ".".
extname(p) ==
    LET b == basename(p)
        k == LastIndexOf(b, 46)
    IN  IF k <= 1 THEN <<>> ELSE SubSeq(b, k, Len(b))

\* str.split('/'): the segments between the slashes of str.
RECURSIVE SplitAtSlashes(_)
SplitAtSlashes(str) ==
    IF str = <<>> THEN <<<<>>>>
    ELSE LET rest == SplitAtSlashes(Tail(str))
         IN  IF Head(str) = 47 THEN <<<<>>>> \o rest
             ELSE <<<<Head(str)>> \o Head(rest)>> \o Tail(rest)

\* normalizeString of path.posix: empty and "." segments are dropped, ".."
\* removes the segment before it, or stays when there is none to remove and
\* the path is relative (allowAboveRoot).
RECURSIVE normalizeString(_, _, _)
normalizeString(segments, res, allowAboveRoot) ==
    IF segments = <<>> THEN res
    ELSE LET seg == Head(segments)
             rest == Tail(segments)
         IN  IF seg = <<>> \/ seg = <<46>>
             THEN normalizeString(rest, res, allowAboveRoot)
             ELSE IF seg = <<46, 46>>
             THEN IF res # <<>> /\ res[Len(res)] # <<46, 46>>
                  THEN normalizeString(rest, SubSeq(res, 1, Len(res) - 1),
                                       allowAboveRoot)
                  ELSE IF allowAboveRoot
                  THEN normalizeString(rest, Append(res, seg), allowAboveRoot)
                  ELSE normalizeString(rest, res, allowAboveRoot)
             ELSE normalizeString(rest, Append(res, seg), allowAboveRoot)

\* The segments with '/' between them.
RECURSIVE JoinSegments(_)
JoinSegments(segments) ==
    IF segments = <<>> THEN <<>>
    ELSE IF Len(segments) = 1 THEN Head(segments)
    ELSE Head(segments) \o <<47>> \o JoinSegments(Tail(segments))

\* path.normalize (POSIX).
normalize(p) ==
    IF p = <<>> THEN <<46>>
    ELSE LET isAbsolute == p[1] = 47
             trailingSeparator == p[Len(p)] = 47
             resolved == JoinSegments(normalizeString(SplitAtSlashes(p), <<>>,
                                                      ~isAbsolute))
         IN  IF resolved = <<>>
             THEN IF isAbsolute THEN <<47>>
                  ELSE IF trailingSeparator THEN <<46, 47>> ELSE <<46>>
             ELSE (IF isAbsolute THEN <<47>> ELSE <<>>) \o resolved \o
                  (IF trailingSeparator THEN <<47>> ELSE <<>>)

\* path.join of two parts: the non-empty parts with '/' between them,
\* normalized.
join(a, b) ==
    IF a = <<>> THEN normalize(b)
    ELSE IF b = <<>> THEN normalize(a)
    ELSE normalize(a \o <<47>> \o b)

\* '.jpg', '.jpeg', '.png', '.tiff', '.tif', '.webp', '.bmp'
supportedImageExtensions ==
    {<<46, 106, 112, 103>>, <<46, 106, 112, 101, 103>>, <<46, 112, 110, 103>>,
     <<46, 116, 105, 102, 102>>, <<46, 116, 105, 102>>,
     <<46, 119, 101, 98, 112>>, <<46, 98, 109, 112>>}

\* A filter that compares the extension as it is spelled.
isValidImageFileExact(filename) ==
    extname(filename) \in supportedImageExtensions

\* isValidImageFile: path.extname(filename).toLowerCase() is in the list.
isValidImageFile(filename) ==
    toLowerCase(extname(filename)) \in supportedImageExtensions

\* getPhotosBasePath(): "/p" for '/mnt/psd'.
getPhotosBasePath == <<47, 112>>

\* replace(/^(\.\.[/\\])+/, ''): every leading "../" or "..\" is removed.
RECURSIVE StripLeadingDotDots(_)
StripLeadingDotDots(str) ==
    IF Len(str) >= 3 /\ str[1] = 46 /\ str[2] = 46 /\ str[3] \in {47, 92}
    THEN StripLeadingDotDots(SubSeq(str, 4, Len(str)))
    ELSE str

\* replace(/^[/\\]+/, ''): leading slashes and backslashes are removed.
RECURSIVE StripLeadingSeparators(_)
StripLeadingSeparators(str) ==
    IF str # <<>> /\ Head(str) \in {47, 92}
    THEN StripLeadingSeparators(Tail(str))
    ELSE str

\* sanitizePath: path.normalize, then the two replacements.
sanitizePath(relativePath) ==
    StripLeadingSeparators(StripLeadingDotDots(normalize(relativePath)))

getFullPhotoPath(relativePath) ==
    join(getPhotosBasePath, sanitizePath(relativePath))

\* The directory identifiers a request may carry: strings of ".", "/", "\"
\* and "a".
PathIds == SeqsUpTo({46, 47, 92, 97}, MaxIdLen)

\* processDirectory: const fullPath = this.photosConfig.getFullPhotoPath(dirPath)
ResolvePath ==
    /\ \E dirPath \in PathIds :
          lastOp' = [op |-> "getFullPhotoPath", relativePath |-> dirPath,
                     fullPath |-> getFullPhotoPath(dirPath)]
    /\ UNCHANGED <<orders, files, memCache, stats, run, dl, now, keyIn, keyOut, maint, boot, asm>>

NextPath == ResolvePath

InitPath ==
    /\ orders = <<>>
    /\ InitCache
    /\ boot = Started

SpecPath == InitPath /\ [][NextPath]_vars

\* The photo share. Directories /p/x/d, /p/y/d and /p/e exist, /p/u exists
\* but cannot be read, anything else is missing.
\*   /p/x/d : a.jpg  a.JPG  n.txt
\*   /p/y/d : a.jpg  .jpg
\*   /p/e   : b.png  a  c.Tiff
\*   /p/u   : a.jpg
DirState(fullPath) ==
    CASE fullPath = <<47, 112, 47, 120, 47, 100>> -> "directory"
      [] fullPath = <<47, 112, 47, 121, 47, 100>> -> "directory"
      [] fullPath = <<47, 112, 47, 101>> -> "directory"
      [] fullPath = <<47, 112, 47, 117>> -> "unreadable"
      [] OTHER -> "missing"

\* fs.promises.readdir(fullPath) of a directory.
readdir(fullPath) ==
    CASE fullPath = <<47, 112, 47, 120, 47, 100>> ->
             <<<<97, 46, 106, 112, 103>>, <<97, 46, 74, 80, 71>>,
               <<110, 46, 116, 120, 116>>>>
      [] fullPath = <<47, 112, 47, 121, 47, 100>> ->
             <<<<97, 46, 106, 112, 103>>, <<46, 106, 112, 103>>>>
      [] fullPath = <<47, 112, 47, 101>> ->
             <<<<98, 46, 112, 110, 103>>, <<97>>, <<99, 46, 84, 105, 102, 102>>>>
      [] fullPath = <<47, 112, 47, 117>> ->
             <<<<97, 46, 106, 112, 103>>>>
      [] OTHER -> <<>>

\* The directory identifiers of a request: "x/d", "y/d", "e", "/e", "u", "m".
PhotoDirs ==
    {<<120, 47, 100>>, <<121, 47, 100>>, <<101>>, <<47, 101>>, <<117>>, <<109>>}

AsmRequests == SeqsUpTo(PhotoDirs, MaxAsmDirs) \ {<<>>}

\* checkDirectoryExists: access(R_OK) and stat().isDirectory(), false on error.
checkDirectoryExists(fullPath) == DirState(fullPath) = "directory"

\* getImageFiles: readdir, filtered by isValidImageFile.
getImageFiles(fullPath) == SelectSeq(readdir(fullPath), isValidImageFile)

\* An entry path that keeps the whole directory identifier.
zipEntryPathUnflattened(relativeDirPath, fileName) ==
    join(sanitizePath(relativeDirPath), fileName)

\* addSingleFileToArchive: path.join(path.basename(relativeDirPath), fileName).
zipEntryPath(relativeDirPath, fileName) ==
    LET lastDirName == basename(relativeDirPath)
    IN  join(lastDirName, fileName)

\* addFilesToArchive: zipArchiver.file(filePath, { name: zipEntryPath }) for
\* every image file, in the order of the listing.
addFilesToArchive(imageFiles, fullPath, relativeDirPath) ==
    [k \in 1..Len(imageFiles) |->
        [name |-> zipEntryPath(relativeDirPath, imageFiles[k]),
         source |-> join(fullPath, imageFiles[k]),
         dir |-> relativeDirPath, file |-> imageFiles[k]]]

\* A processDirectory that lets the error of a directory that is not there
\* escape.
processDirectoryStrict(dirPath) ==
    IF checkDirectoryExists(getFullPhotoPath(dirPath)) THEN "list" ELSE "throw"

\* processDirectory up to its first await: a directory that is missing or
\* unreadable is logged and skipped, any other goes on to the listing.
processDirectory(dirPath) ==
    IF checkDirectoryExists(getFullPhotoPath(dirPath)) THEN "list" ELSE "skip"

\* download: new PassThrough, createZipArchiver (handlers, pipe), and
\* processDirectoriesAsync started in the background: every processDirectory
\* call of processDirectories is pending at its checkDirectoryExists.
processDirectoriesAsync(directoryPaths) ==
    /\ asm.pc = "idle"
    /\ asm' = [IdleAsm EXCEPT !.pc = "dirs", !.dirs = directoryPaths,
                              !.step = [i \in 1..Len(directoryPaths) |-> "check"]]
    /\ lastOp' = NoOp
    /\ UNCHANGED <<orders, files, memCache, stats, run, dl, now, keyIn, keyOut, maint, boot>>

\* The catch block of processDirectoriesAsync: stream.destroy(err), throw err;
\* the catch of the caller destroys the stream unless it is destroyed.
Rejected(a) == [a EXCEPT !.pc = "threw", !.stream = "destroyed"]

\* checkDirectoryExists of the i-th processDirectory call returns.
CheckDirectory(i) ==
    /\ asm.pc = "dirs"
    /\ i \in 1..Len(asm.dirs)
    /\ asm.step[i] = "check"
    /\ LET outcome == processDirectory(asm.dirs[i])
       IN  IF outcome = "throw"
           THEN asm' = Rejected([asm EXCEPT !.step[i] = "threw"])
           ELSE IF outcome = "skip"
           THEN asm' = [asm EXCEPT !.step[i] = "skipped"]
           ELSE asm' = [asm EXCEPT !.step[i] = "list"]
    /\ lastOp' = NoOp
    /\ UNCHANGED <<orders, files, memCache, stats, run, dl, now, keyIn, keyOut, maint, boot>>

\* readdir of the i-th call returns and its image files are added to the
\* archiver in one turn, or readdir throws (the directory went away), which
\* the catch of processDirectory logs.
ListDirectory(i) ==
    /\ asm.pc \in {"dirs", "finalizing"}
    /\ i \in 1..Len(asm.dirs)
    /\ asm.step[i] = "list"
    /\ \E thrown \in BOOLEAN :
          IF thrown
          THEN asm' = [asm EXCEPT !.step[i] = "failed"]
          ELSE LET fullPath == getFullPhotoPath(asm.dirs[i])
                   imageFiles == getImageFiles(fullPath)
               IN  asm' = [asm EXCEPT
                              !.step[i] = "added",
                              !.queue = @ \o addFilesToArchive(imageFiles, fullPath,
                                                              asm.dirs[i])]
    /\ lastOp' = NoOp
    /\ UNCHANGED <<orders, files, memCache, stats, run, dl, now, keyIn, keyOut, maint, boot>>

\* A finalize that does not wait for the directories.
FinalizeEarly(step) == TRUE

\* await Promise.all(processPromises): every processDirectory call has returned.
FinalizeReady(step) ==
    \A i \in 1..Len(step) : step[i] \in {"skipped", "failed", "added"}

\* finalizeArchive: zipArchiver.finalize() is called and awaited.
finalizeArchive ==
    /\ asm.pc = "dirs"
    /\ FinalizeReady(asm.step)
    /\ asm' = [asm EXCEPT !.pc = "finalizing", !.finalizeCalls = @ + 1]
    /\ lastOp' = NoOp
    /\ UNCHANGED <<orders, files, memCache, stats, run, dl, now, keyIn, keyOut, maint, boot>>

\* Entries that fit into the buffers between the archiver and a requester
\* that has stopped reading (highWaterMark, 1 MB each).
BufferedEntries == 1

\* The archiver has room to write: the requester reads, or the buffers have
\* not filled since the stream was closed.
Writable ==
    \/ asm.client = "reading" /\ asm.stream = "open"
    \/ asm.written - asm.writtenAtClose < BufferedEntries

\* The archiver reads the next queued file and writes its entry to the stream.
\* Nothing in download or in processDirectoriesAsync stops it.
ArchiverRead ==
    /\ asm.pc \in {"dirs", "finalizing"}
    /\ asm.written < Len(asm.queue)
    /\ Writable
    /\ asm' = [asm EXCEPT !.written = @ + 1]
    /\ lastOp' = NoOp
    /\ UNCHANGED <<orders, files, memCache, stats, run, dl, now, keyIn, keyOut, maint, boot>>

\* An error handler that ends the stream.
onArchiverErrorEnd == "ended"

\* zipArchiver.on('error', err => stream.destroy(err))
onArchiverError == "destroyed"

\* The archiver emits 'error' while it reads a queued file.
ArchiverError ==
    /\ asm.pc \in {"dirs", "finalizing"}
    /\ asm.written < Len(asm.queue)
    /\ asm.stream = "open"
    /\ ~asm.err
    /\ asm' = [asm EXCEPT !.err = TRUE, !.stream = onArchiverError,
                          !.writtenAtClose =
                              IF asm.client = "reading" THEN asm.written ELSE @]
    /\ lastOp' = NoOp
    /\ UNCHANGED <<orders, files, memCache, stats, run, dl, now, keyIn, keyOut, maint, boot>>

\* finalize() rejects after an archiver error: the catch block of
\* processDirectoriesAsync and then the catch of the caller run.
FinalizeRejects ==
    /\ asm.pc = "finalizing"
    /\ asm.err
    /\ asm' = Rejected(asm)
    /\ lastOp' = NoOp
    /\ UNCHANGED <<orders, files, memCache, stats, run, dl, now, keyIn, keyOut, maint, boot>>

\* Every queued entry is written: the archiver writes the central directory
\* and ends, the pipe ends the stream, finalize() resolves.
ArchiverEnd ==
    /\ asm.pc = "finalizing"
    /\ asm.written = Len(asm.queue)
    /\ ~asm.err
    /\ asm.stream = "open"
    /\ asm.client = "reading"
    /\ asm' = [asm EXCEPT !.pc = "returned", !.stream = "ended"]
    /\ lastOp' = NoOp
    /\ UNCHANGED <<orders, files, memCache, stats, run, dl, now, keyIn, keyOut, maint, boot>>

\* The requester closes the connection while the stream is open.
RequesterDisconnects ==
    /\ asm.pc \in {"dirs", "finalizing"}
    /\ asm.client = "reading"
    /\ asm.stream = "open"
    /\ asm' = [asm EXCEPT !.client = "gone", !.writtenAtClose = asm.written]
    /\ lastOp' = NoOp
    /\ UNCHANGED <<orders, files, memCache, stats, run, dl, now, keyIn, keyOut, maint, boot>>

NextAsm ==
    \/ \E directoryPaths \in AsmRequests : processDirectoriesAsync(directoryPaths)
    \/ \E i \in 1..MaxAsmDirs : CheckDirectory(i)
    \/ \E i \in 1..MaxAsmDirs : ListDirectory(i)
    \/ finalizeArchive
    \/ ArchiverRead
    \/ ArchiverError
    \/ FinalizeRejects
    \/ ArchiverEnd
    \/ RequesterDisconnects

InitAsm ==
    /\ orders = <<>>
    /\ InitCache
    /\ boot = Started

SpecAsm == InitAsm /\ [][NextAsm]_vars

(***************************************************************************)
(* The daily maintenance sweep against one invocation at a time, with days *)
(* passing.                                                                *)
(***************************************************************************)
NextMaint ==
    \/ RunStep(1)
    \/ DayPasses
    \/ performDailyMaintenance
    \/ MaintenanceEnforce

SpecMaint == InitEvict /\ [][NextMaint]_vars

(***************************************************************************)
(* Key derivation on its own: generateCacheKey applied to every list of    *)
(* up to MaxDirs identifiers.                                              *)
(***************************************************************************)
InitKey ==
    /\ orders = <<>>
    /\ InitCache
    /\ boot = Started

ChooseInput ==
    /\ \E directoryPaths \in DirLists : keyIn' = directoryPaths
    /\ keyOut' = NoKey
    /\ UNCHANGED <<orders, files, memCache, stats, run, dl, now, lastOp, maint, boot, asm>>

DeriveKey ==
    /\ keyOut = NoKey
    /\ keyOut' = <<generateCacheKey(keyIn)>>
    /\ UNCHANGED <<orders, files, memCache, stats, run, dl, now, lastOp, keyIn, maint, boot, asm>>

NextKey ==
    \/ ChooseInput
    \/ DeriveKey

SpecKey == InitKey /\ [][NextKey]_vars

(***************************************************************************)
(* Properties.                                                             *)
(***************************************************************************)
\* The cache key of the order an invocation is at.
KeyOf(r) == cacheKeyOf[Current(r)]

\* generateZipFile of invocation r is assembling: from createWriteStream(tempPath)
\* to the write stream's finish or error.
Assembling(r) == run[r].pc \in {"gen", "writing"}

\* Every byte of the archive of directoryPaths is in the file, and no other.
Complete(o, directoryPaths) ==
    /\ \A c \in Chunks : o.data[c]
    /\ o.size = ArchiveBytes(directoryPaths)

\* The directoryPaths lists the orders of the database hold.
OrderedDirs == {orders[i].dirs : i \in 1..Len(orders)}

\* C1: for every cache key, at most one archive assembly for that key is in
\* progress at any time, whatever the interleaving of the pre-generation ticks.
C1_OneAssemblyPerKey ==
    \A r1, r2 \in Runs :
        (Assembling(r1) /\ Assembling(r2) /\ KeyOf(r1) = KeyOf(r2)) => r1 = r2

\* C2: in every reachable state, the artifact a lookup (getCachedZip) returns
\* for a key is complete and no generation is still writing it.
C2_LookupSeesCompleteArtifact ==
    \A directoryPaths \in OrderedDirs :
        LET path == getCachedZip(directoryPaths).path
        IN  path # NoName =>
                /\ Complete(FileAt(path), directoryPaths)
                /\ FileAt(path).w = {}

\* The permutations of a list.
Reorderings(s) ==
    {[i \in 1..Len(s) |-> s[p[i]]] : p \in Perms(1..Len(s))}

\* C3: generateCacheKey is order-invariant: every permutation of a list of
\* directory identifiers derives the key of the list, and the same ZIP path.
C3_KeyOrderInvariant ==
    keyOut # NoKey =>
        \A other \in Reorderings(keyIn) :
            /\ generateCacheKey(other) = keyOut[1]
            /\ getZipPath(other) = getZipPath(keyIn)

\* C3 witness: a key was derived from a list that is not in sorted order.
C3_Witness ==
    /\ keyOut # NoKey
    /\ Len(keyIn) >= 2
    /\ SortPaths(keyIn) # keyIn

\* C4: generateCacheKey is duplicate-invariant: a list that repeats identifiers
\* derives the key of any list of the same set of identifiers.
C4_KeyDuplicateInvariant ==
    keyOut # NoKey =>
        \A other \in DirLists :
            Range(other) = Range(keyIn) => generateCacheKey(other) = keyOut[1]

\* C5: a download with a valid token never waits on a generation in flight
\* for its key: its lookup can always be taken, a lookup that finds no artifact
\* moves straight to the request's own real-time assembly, and every request
\* that has its order obtains a stream (of the cached file or of its own
\* assembly).
C5_DownloadNeverWaits ==
    /\ [](\A d \in Downloads : dl[d].pc = "lookup" => ENABLED DownloadLookup(d))
    /\ [][\A d \in Downloads :
            (dl[d].pc = "lookup" /\ dl'[d].pc # "lookup"
                /\ ~fileExists(getZipPath(dl[d].dirs)))
            => dl'[d].pc = "realtime"]_vars
    /\ \A d \in Downloads :
            (dl[d].pc = "lookup") ~> (dl[d].pc \in {"open", "realtime"})

\* C5 witness: a lookup has just missed while the invocation is assembling the
\* archive of the same key, and the request is on its own real-time assembly.
C5_Witness ==
    /\ lastOp.op = "getCachedZip"
    /\ lastOp.path = NoName
    /\ dl[lastOp.d].pc = "realtime"
    /\ \E r \in Runs :
          /\ run[r].pc = "writing"
          /\ KeyOf(r) = generateCacheKey(lastOp.dirs)

\* C8: an artifact that a cache-hit download is reading is never deleted (by
\* size eviction, age eviction or a flush) while that stream is open.
C8_ReadArtifactKeepsItsName ==
    \A o \in files : o.rd # {} => o.name # NoName

\* The files of a listing that a call left in the directory.
Survivors(op) == {f \in op.listed : f.name \notin op.deleted}

C7_OldestFirst ==
    (lastOp.op = "enforce" /\ lastOp.failed = {}) =>
        \A f \in Survivors(lastOp), g \in lastOp.listed :
            g.name \in lastOp.deleted => f.mtime >= g.mtime

\* C7 witness: a check removed an artifact and left a strictly newer one.
C7_Witness ==
    /\ lastOp.op = "enforce"
    /\ lastOp.failed = {}
    /\ lastOp.deleted # {}
    /\ \E f \in Survivors(lastOp), g \in lastOp.listed :
          g.name \in lastOp.deleted /\ f.mtime > g.mtime

\* The files of a listing whose age at the call is strictly greater than ageInMs.
OlderThan(op) == {f \in op.listed : op.at - f.mtime > op.ageInMs}

\* C9 as stated: flushCacheOlderThan(d) removes exactly the artifacts whose age
\* is strictly greater than d.
C9_RemovesExactlyOlder ==
    lastOp.op = "flushOlderThan" =>
        /\ lastOp.deleted = {f.name : f \in OlderThan(lastOp)}
        /\ getCacheFileInfos = lastOp.listed \ OlderThan(lastOp)

\* C9 amended: flushCacheOlderThan(d) removes exactly the artifacts whose age is
\* strictly greater than d and whose deletion does not fail, and none whose age
\* is at most d; every artifact it does not remove is left unchanged.
C9_RemovesOlderUnlessDeletionFails ==
    lastOp.op = "flushOlderThan" =>
        /\ lastOp.failed \subseteq {f.name : f \in OlderThan(lastOp)}
        /\ lastOp.deleted = {f.name : f \in OlderThan(lastOp)} \ lastOp.failed
        /\ getCacheFileInfos = Survivors(lastOp)

\* C9 witness: a flush found an artifact older than d, one of age exactly d
\* and removed the first only.
C9_Witness ==
    /\ lastOp.op = "flushOlderThan"
    /\ \E f, g \in lastOp.listed :
          /\ lastOp.at - f.mtime > lastOp.ageInMs
          /\ lastOp.at - g.mtime = lastOp.ageInMs
          /\ f.name \in lastOp.deleted
          /\ g.name \notin lastOp.deleted
          /\ fileExists(g.name)
          /\ ~fileExists(f.name)

\* C10: once generateZipFile of an invocation has resolved, and while the
\* artifact it stored is neither evicted nor flushed, getCachedZip for the key
\* returns that artifact and the artifact holds exactly the assembler's bytes.
C10_StoredArtifactIsWhatWasWritten ==
    \A r \in Runs :
        (run[r].pc = "enforce" /\ \E o \in files : r \in o.st) =>
            LET path == getCachedZip(Current(r)).path
            IN  /\ path = getZipPath(Current(r))
                /\ r \in FileAt(path).st
                /\ Complete(FileAt(path), Current(r))

C12_RealtimeDownloadIsPersisted ==
    (lastOp.op = "realtime" /\ lastOp.outcome = "done") =>
        getCachedZip(lastOp.dirs).path # NoName

C14_FailedGenerationPublishesNothing ==
    lastOp.op = "generateZipFile rejects" =>
        /\ fileExists(getZipPath(lastOp.dirs)) = lastOp.published
        /\ memCache = lastOp.memCache
        /\ ~lastOp.published => getCachedZip(lastOp.dirs).path = NoName

\* C14 witness: a generation failed after it had written part of the archive
\* into its temporary file, and the key has no artifact.
C14_Witness ==
    /\ lastOp.op = "generateZipFile rejects"
    /\ lastOp.opened
    /\ \E o \in Named(TempPath(getZipPath(lastOp.dirs))) : o.size > 0
    /\ ~fileExists(getZipPath(lastOp.dirs))
    /\ getCachedZip(lastOp.dirs).path = NoName

\* C15: the partial output of an aborted assembly is destroyed: once
\* generateZipFile has rejected, no '<key>.zip.tmp' of that generation remains
\* in the cache directory.
C15_FailedGenerationLeavesNoTemp ==
    lastOp.op = "generateZipFile rejects" =>
        ~fileExists(TempPath(getZipPath(lastOp.dirs)))

\* C16: a failed generation never blocks its key: after a generation of a key
\* has failed, a later pre-generation tick attempts the generation of the key
\* again, and a download that looks the key up still gets a stream (of the
\* cached file or of its own assembly).
C16_FailedGenerationIsRetried ==
    /\ \A directoryPaths \in OrderDirs :
          (lastOp.op = "generateZipFile rejects" /\ lastOp.dirs = directoryPaths)
              ~> (\E r \in Runs : /\ Assembling(r)
                                  /\ KeyOf(r) = generateCacheKey(directoryPaths))
    /\ [][\A d \in Downloads :
            (dl[d].pc = "lookup" /\ dl'[d].pc # "lookup")
                => dl'[d].pc \in {"open", "realtime"}]_vars
    /\ (dl[1].pc = "lookup") ~> (dl[1].pc \in {"open", "realtime"})

\* C16 witness: the temporary file of a failed generation is still in the
\* directory, the invocation is about to generate that key again, and a
\* download of the key has just missed and is on its own real-time assembly.
C16_Witness ==
    /\ run[1].pc = "gen"
    /\ \E o \in Named(TempPath(getZipPath(Current(1)))) : o.w = {}
    /\ lastOp.op = "getCachedZip"
    /\ generateCacheKey(lastOp.dirs) = KeyOf(1)
    /\ lastOp.path = NoName
    /\ dl[lastOp.d].pc = "realtime"

\* The invocations of preGenerateZips that have not returned yet.
ActiveRuns == {r \in Runs : run[r].pc # "idle"}

\* C17: a scheduled activity does not overlap with itself: while one run of
\* preGenerateZips is executing, a newly scheduled trigger is suppressed, so at
\* most one run is active at any time.
C17_NoOverlappingRuns ==
    Cardinality(ActiveRuns) <= 1

\* C18: a pre-generation run tolerates the failure of an item: when the
\* generation of an order fails, or deletions of the size check that follows
\* it fail, the run goes on to examine the next order of the same batch (and
\* generates it if it is uncached), and it ends only after the last order of
\* the batch.
C18_BatchSurvivesFailedItem ==
    /\ (\/ lastOp.op = "generateZipFile rejects"
        \/ lastOp.op = "enforce" /\ lastOp.failed # {}) =>
          /\ lastOp.idx < Len(findRecentOrders(maxRecentOrders)) =>
                /\ run[lastOp.r].pc = "check"
                /\ run[lastOp.r].idx = lastOp.idx + 1
                /\ run[lastOp.r].recent = findRecentOrders(maxRecentOrders)
          /\ lastOp.idx >= Len(findRecentOrders(maxRecentOrders)) =>
                run[lastOp.r] = IdleRun
    /\ \A r \in Runs :
          run[r].pc # "idle" =>
              /\ run[r].recent = findRecentOrders(maxRecentOrders)
              /\ run[r].idx \in 1..Len(run[r].recent)
    /\ \A r \in Runs :
          (run[r].pc = "check" /\ ~fileExists(getZipPath(Current(r)))) =>
              ENABLED (PreGenCheck(r) /\ run'[r].pc = "gen")

\* C18 witness: the generation of the first order of the batch has failed, and
\* the run is writing the archive of the second order.
C18_Witness ==
    /\ run[1].pc = "writing"
    /\ run[1].idx = 2
    /\ ~fileExists(getZipPath(run[1].recent[1]))
    /\ \E o \in Named(TempPath(getZipPath(run[1].recent[1]))) : o.w = {}
    /\ getZipPath(run[1].recent[1]) # getZipPath(run[1].recent[2])

\* The invocations whose generateZipFile has stored an artifact and whose size
\* check for it has not run yet.
UncheckedStores == {r \in Runs : run[r].pc = "enforce"}

\* C19: every successful store is followed by a size check before any further
\* artifact is stored: no artifact is stored while the size check of an earlier
\* store is still to come.
C19_SizeCheckBeforeNextStore ==
    Cardinality(UncheckedStores) <= 1

\* C20: every maintenance sweep runs the age-based reclamation (with the
\* configured maximum age) first and the size check after it, and performs both.
C20_SweepFlushesThenChecksSize ==
    /\ maint.pc = "idle" =>
          maint.calls \in {<<>>, <<"flushCacheOlderThan", "enforceMaxCacheSize">>}
    /\ maint.pc = "size" => maint.calls = <<"flushCacheOlderThan">>
    /\ lastOp.op = "maintenance flush" =>
          /\ maint.pc = "size"
          /\ lastOp.ageInMs = maxCacheAgeHours
    /\ lastOp.op = "maintenance size check" =>
          /\ maint.pc = "idle"
          /\ maint.calls = <<"flushCacheOlderThan", "enforceMaxCacheSize">>

\* C20 witness: a sweep has ended whose flush removed an artifact older than
\* the maximum age and whose size check then removed another one.
C20_Witness ==
    /\ lastOp.op = "maintenance size check"
    /\ maint.pc = "idle"
    /\ maint.calls = <<"flushCacheOlderThan", "enforceMaxCacheSize">>
    /\ maint.deletedFiles >= 1
    /\ lastOp.deleted # {}

\* The files of a listing that a call removed.
Removed(op) == {f \in op.listed : f.name \in op.deleted}

\* C28: age eviction reports a result in which the count is the number of
\* artifacts the flush removed and the size is the total size of exactly those
\* artifacts, also when some deletions fail.
C28_FlushReportsWhatItRemoved ==
    lastOp.op = "flushOlderThan" =>
        /\ lastOp.deletedFiles = Cardinality(Removed(lastOp))
        /\ lastOp.totalSizeMB = bytesToMB(SumSizes(Removed(lastOp)))

Blank(token) == token = 0

Unknown(token) == token # 0 /\ findByToken(token) = NoOp

Expired(token, at) ==
    /\ findByToken(token) # NoOp
    /\ findByToken(token).tokenExpiry < at

\* C30: a download whose token is blank, unknown or expired ends with NotFound
\* at the validation, before any stream is created and before the cache is
\* looked up (statistics and memory cache untouched, no path, no directories);
\* a request goes on to the lookup only with the directories of an order whose
\* token is valid; a failure of the validation other than these ends with
\* InternalServerError.
C30_InvalidTokenIsNotFoundBeforeAnyWork ==
    lastOp.op = "validateToken" =>
        LET d == lastOp.d
            token == lastOp.token
            invalid == Blank(token) \/ Unknown(token) \/ Expired(token, lastOp.at)
        IN  /\ (invalid /\ ~lastOp.thrown) => dl[d] = Ended("notfound")
            /\ lastOp.thrown => dl[d] = Ended("internal")
            /\ dl[d].pc \notin {"notfound", "internal"} =>
                   /\ ~invalid
                   /\ dl[d].pc = "lookup"
                   /\ dl[d].dirs = findByToken(token).dirs
            /\ dl[d].pc \in {"notfound", "internal"} =>
                   /\ stats = lastOp.stats
                   /\ memCache = lastOp.memCache
                   /\ dl[d].path = NoName

\* A request with the token of the oldest order, after its expiry and while
\* the archive of that order is in the cache, was answered with NotFound.
C30_Witness ==
    /\ lastOp.op = "validateToken"
    /\ Expired(lastOp.token, lastOp.at)
    /\ ~lastOp.thrown
    /\ dl[lastOp.d] = Ended("notfound")
    /\ fileExists(getZipPath(findByToken(lastOp.token).dirs))

\* The configuration the start found is broken: no cache directory, or the
\* photos base path is not a readable directory.
ConfigurationFailure ==
    \/ ~boot.cacheDirectory
    \/ boot.photosBase # "directory"

\* C27: when the cache root cannot be created or the photos base path is
\* invalid, the start fails and the service serves nothing: no generation, no
\* lookup, no download.
C27_ConfigurationFailureIsFatal ==
    (boot.pc # "starting" /\ ConfigurationFailure) =>
        /\ boot.pc = "failed"
        /\ \A r \in Runs : run[r].pc = "idle"
        /\ \A d \in Downloads : dl[d].pc = "idle"

\* The positions of the request of the assembly.
AsmIndexes == 1..Len(asm.dirs)

\* The processDirectory calls have all returned.
AllProcessed ==
    \A i \in AsmIndexes : asm.step[i] \in {"skipped", "failed", "added"}

\* The files the archiver was given.
Sources == {asm.queue[k].source : k \in 1..Len(asm.queue)}

\* a and b are the same string but for the case of their letters.
SameIgnoringCase(a, b) ==
    /\ Len(a) = Len(b)
    /\ \A i \in 1..Len(a) :
           \/ a[i] = b[i]
           \/ a[i] >= 65 /\ a[i] <= 90 /\ a[i] + 32 = b[i]
           \/ b[i] >= 65 /\ b[i] <= 90 /\ b[i] + 32 = a[i]

\* The file name is a non-empty stem followed by an extension of the
\* allow-list, in any case of its letters.
Eligible(fileName) ==
    \E ext \in supportedImageExtensions :
        /\ Len(fileName) > Len(ext)
        /\ SameIgnoringCase(SubSeq(fileName, Len(fileName) - Len(ext) + 1,
                                   Len(fileName)), ext)

\* The eligible files of the directory at position i of the request.
EligibleAt(i) ==
    LET fullPath == <<47, 112, 47>> \o StripLeadingSlashes(asm.dirs[i])
    IN  {fullPath \o <<47>> \o readdir(fullPath)[k] :
            k \in {n \in 1..Len(readdir(fullPath)) : Eligible(readdir(fullPath)[n])}}

\* C21: a missing or unreadable directory is a soft failure: the assembly is
\* never rejected because of it (only an archiver error rejects), its call is
\* skipped, and when the assembly has returned the archive is finalized, ended
\* normally, and holds exactly the eligible files of the directories that
\* exist and were listed, none of a missing or unreadable one.
C21_MissingDirectoryIsSoft ==
    /\ asm.pc = "threw" => asm.err
    /\ \A i \in AsmIndexes :
           DirState(<<47, 112, 47>> \o StripLeadingSlashes(asm.dirs[i])) # "directory" =>
               /\ asm.step[i] \in {"check", "skipped"}
               /\ \A k \in 1..Len(asm.queue) : asm.queue[k].dir # asm.dirs[i]
    /\ asm.pc = "returned" =>
           /\ AllProcessed
           /\ asm.finalizeCalls = 1
           /\ asm.stream = "ended"
           /\ asm.written = Len(asm.queue)
           /\ Sources = UNION {EligibleAt(i) : i \in {j \in AsmIndexes : asm.step[j] = "added"}}

\* The assembly of an existing and a missing directory has returned with the
\* files of the existing one.
C21_Witness ==
    /\ asm.pc = "returned"
    /\ \E i, j \in AsmIndexes :
           /\ asm.step[i] = "added"
           /\ asm.step[j] = "skipped"
           /\ DirState(getFullPhotoPath(asm.dirs[j])) = "missing"
    /\ asm.queue # <<>>

\* The files of the photo share, by the directory identifier that leads to them.
ShareFiles(dirPath) ==
    LET fullPath == <<47, 112, 47>> \o StripLeadingSlashes(dirPath)
    IN  {[source |-> fullPath \o <<47>> \o readdir(fullPath)[k],
          file |-> readdir(fullPath)[k], fullPath |-> fullPath] :
            k \in 1..Len(readdir(fullPath))}

\* C22: once the directories are processed, the archive contains a file if
\* and only if the file lies in a requested directory that exists and was
\* listed and its extension, compared without regard to case, is in the
\* allow-list; the others are left out and nothing fails because of them.
C22_ArchiveHoldsExactlyTheImages ==
    AllProcessed =>
        /\ \A dirPath \in PhotoDirs : \A f \in ShareFiles(dirPath) :
               f.source \in Sources <=>
                   /\ Eligible(f.file)
                   /\ \E i \in AsmIndexes :
                          /\ asm.step[i] = "added"
                          /\ <<47, 112, 47>> \o StripLeadingSlashes(asm.dirs[i]) = f.fullPath
        /\ \A k \in 1..Len(asm.queue) :
               \E dirPath \in PhotoDirs : \E f \in ShareFiles(dirPath) :
                   asm.queue[k].source = f.source
        /\ asm.pc = "threw" => asm.err

\* The archive of "x/d" has returned with a.jpg and a.JPG and without n.txt.
C22_Witness ==
    /\ asm.pc = "returned"
    /\ asm.dirs = <<<<120, 47, 100>>>>
    /\ <<47, 112, 47, 120, 47, 100, 47, 97, 46, 74, 80, 71>> \in Sources
    /\ <<47, 112, 47, 120, 47, 100, 47, 97, 46, 106, 112, 103>> \in Sources
    /\ <<47, 112, 47, 120, 47, 100, 47, 110, 46, 116, 120, 116>> \notin Sources

\* C23: the archive-internal path of every included file is the basename of
\* its directory identifier, "/", and the file name; two requested directories
\* of the same basename and different parents give files of the same name the
\* same archive path.
C23_EntryPathIsBasenameAndFile ==
    /\ \A k \in 1..Len(asm.queue) :
           LET e == asm.queue[k]
               cut == LastIndexOf(e.dir, 47)
           IN  /\ \E i \in AsmIndexes : asm.dirs[i] = e.dir
               /\ e.name = SubSeq(e.dir, cut + 1, Len(e.dir)) \o <<47>> \o e.file
    /\ \A k, n \in 1..Len(asm.queue) :
           (/\ asm.queue[k].file = asm.queue[n].file
            /\ basename(asm.queue[k].dir) = basename(asm.queue[n].dir)) =>
               asm.queue[k].name = asm.queue[n].name

\* The archive of "x/d" and "y/d" holds two different files under "d/a.jpg".
C23_Witness ==
    /\ asm.pc = "returned"
    /\ \E k, n \in 1..Len(asm.queue) :
           /\ asm.queue[k].dir = <<120, 47, 100>>
           /\ asm.queue[n].dir = <<121, 47, 100>>
           /\ asm.queue[k].source # asm.queue[n].source
           /\ asm.queue[k].name = <<100, 47, 97, 46, 106, 112, 103>>
           /\ asm.queue[n].name = <<100, 47, 97, 46, 106, 112, 103>>

\* C24: within one assembly finalize is called at most once, only after every
\* processDirectory call has returned, and exactly once by the time the
\* assembly has returned or waits for the archiver.
C24_FinalizeOnceAfterAllDirectories ==
    /\ asm.finalizeCalls <= 1
    /\ asm.finalizeCalls = 1 =>
           \A i \in AsmIndexes : asm.step[i] \in {"skipped", "failed", "added"}
    /\ asm.pc \in {"finalizing", "returned"} => asm.finalizeCalls = 1
    /\ (asm.pc = "dirs" /\ \E i \in AsmIndexes : asm.step[i] \in {"check", "list"}) =>
           /\ asm.finalizeCalls = 0
           /\ ~ENABLED finalizeArchive

\* An assembly of two directories has returned after one finalize.
C24_Witness ==
    /\ asm.pc = "returned"
    /\ Len(asm.dirs) = 2
    /\ asm.finalizeCalls = 1
    /\ \A i \in AsmIndexes : asm.step[i] = "added"

\* C25: once the archiver or the assembly has raised an error, the stream
\* handed to the requester is destroyed and is never ended normally.
C25_ErrorDestroysTheStream ==
    (asm.err \/ asm.pc = "threw") => asm.stream = "destroyed"

\* The archiver failed after it had written an entry, and the assembly was
\* rejected.
C25_Witness ==
    /\ asm.err
    /\ asm.written > 0
    /\ asm.pc = "threw"
    /\ asm.stream = "destroyed"

\* C26: after the requester of a real-time download has disconnected, the
\* assembly reads no further file.
C26_DisconnectStopsTheAssembly ==
    asm.client = "gone" => asm.written = asm.writtenAtClose

\* The ceiling in bytes.
CeilingBytes == maxCacheSizeMB * BytesPerCentiMB

\* The last step was a size check.
SizeCheck == lastOp.op \in {"enforce", "maintenance size check"}

\* C35: a size check over artifacts whose total is at or below the ceiling
\* deletes nothing; a size check that deletes stops as soon as the remaining
\* total is at or below the ceiling: before its last deletion (of a newest
\* among the deleted) the remaining total still exceeded the ceiling.
C35_SizeCheckDeletesOnlyWhatMustGo ==
    SizeCheck =>
        LET total == SumSizes(lastOp.listed)
            gone == Removed(lastOp)
        IN  /\ total <= CeilingBytes => gone = {}
            /\ gone # {} =>
                   \E f \in gone :
                       /\ \A g \in gone : g.mtime <= f.mtime
                       /\ total - SumSizes(gone \ {f}) > CeilingBytes

\* A size check deleted an artifact and left a younger one that it could
\* have deleted.
C35_Witness ==
    /\ SizeCheck
    /\ Removed(lastOp) # {}
    /\ \E f \in lastOp.listed :
           /\ f.name \notin lastOp.deleted
           /\ f.name \notin lastOp.failed
           /\ fileExists(f.name)

\* The last step was a flush or a size check.
Deletion ==
    lastOp.op \in {"flushAll", "flushOlderThan", "enforce",
                   "maintenance flush", "maintenance size check"}

\* C36: after flushAllCache, flushCacheOlderThan or enforceMaxCacheSize no
\* memory-cache entry names a file that the operation deleted.
C36_DeletionRemovesTheMemoryEntry ==
    Deletion =>
        \A cacheKey \in DOMAIN memCache : memCache[cacheKey] \notin lastOp.deleted

\* The last step was a lookup, with or without a failure of the memory cache.
Lookup == lastOp.op \in {"getCachedZip", "getCachedZip fallback"}

LookedUp ==
    {d \in Downloads : dl[d].pc \in {"open", "streaming", "realtime", "done", "error"}}

\* C38: hits plus misses is the number of getCachedZip calls completed since
\* the last flush, whatever the interleaving of concurrent lookups.
C38_CountersAreExact ==
    stats.hits + stats.misses = Cardinality(LookedUp)

\* The temporary files and the artifacts the cache directory holds.
TempFiles == {o \in files : o.name # NoName /\ o.name.ext = ".zip.tmp"}

Artifacts == {o \in files : o.name # NoName /\ o.name.ext = ".zip"}

\* C39: a temporary file '<key>.zip.tmp' is never a cache entry: a lookup
\* never returns one, getCacheStats counts only the artifacts and their sizes,
\* and a size check or a flush never lists, deletes or tries to delete one.
C39_TempFileIsNoCacheEntry ==
    /\ lastOp.op = "getCachedZip" => lastOp.path.ext # ".zip.tmp"
    /\ lastOp.op = "getCacheStats" =>
           /\ lastOp.result.fileCount = Cardinality(Artifacts)
           /\ lastOp.result.totalSizeMB = bytesToMB(SumSizes(Artifacts))
    /\ Deletion =>
           \A name \in lastOp.deleted \cup lastOp.failed \cup
                        {f.name : f \in lastOp.listed} : name.ext = ".zip"

\* The statistics were read while a temporary file with bytes in it stood
\* next to an artifact.
C39_Witness ==
    /\ lastOp.op = "getCacheStats"
    /\ lastOp.result.fileCount = 1
    /\ \E o \in TempFiles : o.size > 0

(***************************************************************************)
(* Pre-generation and the artifacts it finds.                              *)
(***************************************************************************)
\* The last step ended the generation the invocation r started for the order
\* before the one it is at, and no artifact was deleted since it was stored:
\* the generation failed, or the size check that followed it listed its
\* artifact and deleted nothing.
GeneratedJustBefore(r) ==
    /\ run[r].idx > 1
    /\ lastOp.op \in {"enforce", "generateZipFile rejects"}
    /\ lastOp.r = r
    /\ lastOp.idx = run[r].idx - 1
    /\ lastOp.op = "enforce" =>
           /\ getZipPath(run[r].recent[run[r].idx - 1]) \in
                  {f.name : f \in lastOp.listed}
           /\ lastOp.deleted = {}

\* C33: pre-generation generates only for misses: the examination of an order
\* starts a generation if and only if no artifact exists for the order's key
\* at that time, and an order of the same set of directories as the order
\* before it, for which the invocation has just generated with nothing evicted
\* since, starts no second generation.
C33_GeneratesOnlyForMisses ==
    [][\A r \in Runs :
          (run[r].pc = "check" /\ run'[r] # run[r]) =>
              /\ run'[r].pc = "gen" <=> ~fileExists(getZipPath(Current(r)))
              /\ ( /\ GeneratedJustBefore(r)
                   /\ Range(run[r].recent[run[r].idx - 1]) = Range(Current(r)) )
                     => run'[r].pc # "gen"]_vars
(***************************************************************************)
(* Generations of different keys.                                          *)
(***************************************************************************)
\* The files of the cache directory named after another key than cacheKey.
FilesOfOtherKeys(fs, cacheKey) ==
    {o \in fs : o.name # NoName /\ o.name.key # cacheKey}

\* The memory-cache entries of another key than cacheKey.
EntriesOfOtherKeys(cache, cacheKey) ==
    {<<k, cache[k]>> : k \in (DOMAIN cache) \ {cacheKey}}

\* Invocation r takes a step of its generateZipFile call.
GenerationStep(r) ==
    /\ run[r].pc \in {"gen", "writing"}
    /\ run'[r] # run[r]

\* C34: generations for different keys do not interfere: a step of
\* generateZipFile for key A (open, write, rename, cacheManager.set, failure)
\* leaves the temporary file, the artifact and the memory-cache entry of every
\* other key as they are, whatever other generations are in flight.
C34_GenerationsDoNotInterfere ==
    [][\A r \in Runs :
          GenerationStep(r) =>
              /\ FilesOfOtherKeys(files', KeyOf(r)) = FilesOfOtherKeys(files, KeyOf(r))
              /\ EntriesOfOtherKeys(memCache', KeyOf(r)) =
                     EntriesOfOtherKeys(memCache, KeyOf(r))]_vars

\* Two invocations are writing the archives of different keys while the
\* artifact of an earlier generation is in the cache.
C34_Witness ==
    /\ \A r \in Runs : run[r].pc = "writing" /\ run[r].off > 0
    /\ KeyOf(1) # KeyOf(2)
    /\ \E o \in files : o.name # NoName /\ o.name.ext = ".zip"
(***************************************************************************)
(* Convergence of pre-generation.                                          *)
(***************************************************************************)
RecentOrders == findRecentOrders(maxRecentOrders)

RecentPaths == {getZipPath(RecentOrders[i]) : i \in DOMAIN RecentOrders}

\* Every recent order has its artifact in the cache directory.
AllCached == \A zipPath \in RecentPaths : fileExists(zipPath)

\* The bytes of the artifacts of the recent orders, one artifact per key.
RecentBytes ==
    SumSizes({[name |-> getZipPath(RecentOrders[i]),
               size |-> ArchiveBytes(RecentOrders[i])] : i \in DOMAIN RecentOrders})

\* The bytes of the artifacts in the cache that belong to no recent order.
OtherBytes == SumSizes({f \in getCacheFileInfos : f.name \notin RecentPaths})

\* No invocation is inside a generation or its size check.
BetweenGenerations == \A r \in Runs : run[r].pc \in {"idle", "check"}

\* What convergence says of a step: the step that completes an invocation
\* leaves every recent order cached, and once every recent order is cached an
\* invocation starts no generation and the ZIP files stay as they are.
Converges ==
    /\ \A r \in Runs :
           (run[r].pc # "idle" /\ run'[r].pc = "idle") => AllCached'
    /\ (AllCached /\ BetweenGenerations) =>
           /\ BetweenGenerations'
           /\ getZipFiles' = getZipFiles

NoDirectories ==
    ~lastOp.body.present \/ lastOp.body.directoryPaths = <<>>

\* C31: no order is ever created with an empty directory list: associate with
\* an empty or missing directoryPaths fails with BadRequest and createOrder is
\* not called, and when createOrder fails the request fails with
\* InternalServerError and no token is returned.
C31_NoOrderWithoutDirectories ==
    /\ \A i \in DOMAIN orders : orders[i].dirs # <<>>
    /\ lastOp.op = "associate" =>
           /\ NoDirectories =>
                  /\ lastOp.response = "BadRequest"
                  /\ ~lastOp.createOrderCalled
                  /\ orders = lastOp.before
                  /\ lastOp.token = 0
           /\ (~NoDirectories /\ lastOp.thrown) =>
                  /\ lastOp.response = "InternalServerError"
                  /\ lastOp.token = 0

\* An associate with an empty directoryPaths was refused while an order is in
\* the collection.
C31_Witness ==
    /\ lastOp.op = "associate"
    /\ lastOp.body.present
    /\ lastOp.body.directoryPaths = <<>>
    /\ lastOp.response = "BadRequest"
    /\ orders # <<>>
(***************************************************************************)
(* Directory identifiers and the photos base path.                         *)
(***************************************************************************)
\* p is the directory base or a path below it.
InsideOf(base, p) ==
    \/ p = base
    \/ /\ Len(p) >= Len(base) + 1
       /\ SubSeq(p, 1, Len(base) + 1) = base \o <<47>>

\* C32: for every directory identifier, including ones with leading or
\* embedded ".." segments or a leading separator, getFullPhotoPath resolves to
\* a path that lies inside the configured photos base path.
C32_FullPathStaysInsideBase ==
    lastOp.op = "getFullPhotoPath" => InsideOf(getPhotosBasePath, lastOp.fullPath)
====
